---------------------------- MODULE Spec2Model ----------------------------
(***************************************************************************)
(* gzfs: the zdb client (zdb.GetPool).  Two parts are modelled:            *)
(*   - the indentation parser that GetPool runs over the lines of          *)
(*     `zdb -C <pool>` (the loop over `lines`, parseLine, parseProp);      *)
(*   - the package-level TTL cache zdbCache guarded by zdbCacheMutex.      *)
(*                                                                         *)
(* Strings are sequences of one-character strings, so that TrimSpace,      *)
(* TrimLeft, SplitN, the TAB count and fmt.Sscan are computed character by *)
(* character.  Integers scanned from the text are kept as decimal numerals *)
(* (sign and digit string) because the uint64 fields exceed TLC's integer  *)
(* range.  Slices are (array, len, cap) headers over a heap of backing     *)
(* arrays and a stack frame's child is an (array, index) address, as       *)
(* &pool.Children[i] is in Go.                                             *)
(***************************************************************************)
EXTENDS Integers, Sequences, FiniteSets, TLC

VARIABLES
    now,            \* the wall clock read by time.Now(), in seconds
    ticks,          \* how many times the clock has advanced
    ZDBCacheTTLSeconds, \* Options.ZDBCacheTTLSeconds each client was made with
    cacheTTL,       \* zdb.cacheTTL of each client, in seconds
    zdbCache,       \* the package-level map: cache key -> zdbCacheEntry
    zdbCacheMutex,  \* the sync.RWMutex: [readers, writer]
    pools,          \* the *ZDBPool objects allocated so far (address = index)
    CallHistory,    \* the runner's log of invocations
    pc,             \* where each goroutine stands in GetPool
    frame,          \* the locals of each goroutine's GetPool call
    ret,            \* what each goroutine's last GetPool call returned
    calls,          \* number of GetPool calls started
    atCall,         \* history: zdbCache and CallHistory as the call began
    lastStore,      \* history: the call that last stored under each key
    run             \* the parser run: one GetPool call followed line by line

cacheVars == <<now, ticks, ZDBCacheTTLSeconds, cacheTTL, zdbCache, zdbCacheMutex, pools,
               CallHistory, pc, frame, ret, calls, atCall, lastStore>>
vars == <<now, ticks, ZDBCacheTTLSeconds, cacheTTL, zdbCache, zdbCacheMutex, pools,
          CallHistory, pc, frame, ret, calls, atCall, lastStore, run>>

-----------------------------------------------------------------------------
(* Bounds of the model.                                                    *)

MaxLines == 4       \* lines of text in one parser run
MaxCalls == 3       \* GetPool calls started in one behaviour
MaxTicks == 3       \* clock advances in one behaviour

-----------------------------------------------------------------------------
(* Strings.                                                                *)

Space == {" ", "\t", "\n", "\r"}
TAB == "\t"
NL == "\n"

RECURSIVE TrimLeft(_, _)
TrimLeft(s, cutset) ==
    IF s # <<>> /\ Head(s) \in cutset THEN TrimLeft(Tail(s), cutset) ELSE s

RECURSIVE TrimRight(_, _)
TrimRight(s, cutset) ==
    IF s # <<>> /\ s[Len(s)] \in cutset
    THEN TrimRight(SubSeq(s, 1, Len(s) - 1), cutset)
    ELSE s

TrimSpace(s) == TrimRight(TrimLeft(s, Space), Space)

\* index of the first occurrence of c in s, 0 when there is none
Index(s, c) ==
    IF \E i \in 1..Len(s) : s[i] = c
    THEN CHOOSE i \in 1..Len(s) : s[i] = c /\ \A j \in 1..(i - 1) : s[j] # c
    ELSE 0

RECURSIVE Split(_, _)
Split(s, sep) ==
    LET i == Index(s, sep)
    IN  IF i = 0 THEN <<s>>
        ELSE <<SubSeq(s, 1, i - 1)>> \o Split(SubSeq(s, i + 1, Len(s)), sep)

\* strings.SplitN(s, sep, 2)
SplitN2(s, sep) ==
    LET i == Index(s, sep)
    IN  IF i = 0 THEN <<s>>
        ELSE <<SubSeq(s, 1, i - 1), SubSeq(s, i + 1, Len(s))>>

RECURSIVE Join(_, _)
Join(ss, sep) ==
    IF ss = <<>> THEN <<>>
    ELSE IF Len(ss) = 1 THEN ss[1]
    ELSE ss[1] \o <<sep>> \o Join(Tail(ss), sep)

\* the loop of GetPool that counts the leading TABs of a raw line
RECURSIVE CountIndent(_)
CountIndent(rawLine) ==
    IF rawLine # <<>> /\ Head(rawLine) = TAB
    THEN 1 + CountIndent(Tail(rawLine))
    ELSE 0

-----------------------------------------------------------------------------
(* fmt.Sscan into an int / a uint64.  The texts of the model hold no base  *)
(* prefix letter (b, o, x) and no underscore, so a leading 0 starts an     *)
(* octal token and any other digit a decimal token.                        *)

DecimalDigits == {"0", "1", "2", "3", "4", "5", "6", "7", "8", "9"}
OctalDigits == {"0", "1", "2", "3", "4", "5", "6", "7"}
Sign == {"+", "-"}

DigitVal(c) ==
    CASE c = "0" -> 0 [] c = "1" -> 1 [] c = "2" -> 2 [] c = "3" -> 3
      [] c = "4" -> 4 [] c = "5" -> 5 [] c = "6" -> 6 [] c = "7" -> 7
      [] c = "8" -> 8 [] c = "9" -> 9

DigitChar(n) ==
    CASE n = 0 -> "0" [] n = 1 -> "1" [] n = 2 -> "2" [] n = 3 -> "3"
      [] n = 4 -> "4" [] n = 5 -> "5" [] n = 6 -> "6" [] n = 7 -> "7"
      [] n = 8 -> "8" [] n = 9 -> "9"

\* the longest prefix of s made of characters of digits
RECURSIVE TakeDigits(_, _)
TakeDigits(s, digits) ==
    IF s # <<>> /\ Head(s) \in digits
    THEN <<Head(s)>> \o TakeDigits(Tail(s), digits)
    ELSE <<>>

RECURSIVE OctalValue(_, _)
OctalValue(ds, acc) ==
    IF ds = <<>> THEN acc ELSE OctalValue(Tail(ds), 8 * acc + DigitVal(Head(ds)))

RECURSIVE ToDecimal(_)
ToDecimal(n) ==
    IF n < 10 THEN <<DigitChar(n)>>
    ELSE ToDecimal(n \div 10) \o <<DigitChar(n % 10)>>

\* a <= b for two decimal digit strings without leading zeros
RECURSIVE DigitsLeq(_, _)
DigitsLeq(a, b) ==
    IF Len(a) # Len(b) THEN Len(a) < Len(b)
    ELSE IF a = <<>> THEN TRUE
    ELSE IF Head(a) # Head(b) THEN DigitVal(Head(a)) < DigitVal(Head(b))
    ELSE DigitsLeq(Tail(a), Tail(b))

MaxInt64 ==
    <<"9","2","2","3","3","7","2","0","3","6","8","5","4","7","7","5","8","0","7">>
MinInt64Magnitude ==
    <<"9","2","2","3","3","7","2","0","3","6","8","5","4","7","7","5","8","0","8">>
MaxUint64 ==
    <<"1","8","4","4","6","7","4","4","0","7","3","7","0","9","5","5","1","6","1","5">>

Zero == [neg |-> FALSE, mag |-> <<"0">>]
ScanFailed(why) == [ok |-> FALSE, why |-> why, v |-> Zero]

\* the token scanNumber reads after the sign, as a decimal magnitude
ScanMagnitude(s) ==
    IF s # <<>> /\ Head(s) = "0"
    THEN [ok |-> TRUE,
          mag |-> ToDecimal(OctalValue(TakeDigits(Tail(s), OctalDigits), 0))]
    ELSE IF s = <<>> THEN [ok |-> FALSE, why |-> "unexpected EOF"]
    ELSE IF Head(s) \notin DecimalDigits
         THEN [ok |-> FALSE, why |-> "expected integer"]
    ELSE [ok |-> TRUE, mag |-> TakeDigits(s, DecimalDigits)]

\* fmt.Sscan(val, &c.ID) and the other int fields
ScanInt(val) ==
    LET s0   == TrimLeft(val, Space)
        neg  == s0 # <<>> /\ Head(s0) = "-"
        s1   == IF s0 # <<>> /\ Head(s0) \in Sign THEN Tail(s0) ELSE s0
        m    == ScanMagnitude(s1)
    IN  IF s0 = <<>> THEN ScanFailed("unexpected EOF")
        ELSE IF ~m.ok THEN ScanFailed(m.why)
        ELSE IF ~DigitsLeq(m.mag, IF neg THEN MinInt64Magnitude ELSE MaxInt64)
             THEN ScanFailed("value out of range")
        ELSE [ok |-> TRUE, why |-> "",
              v |-> [neg |-> neg /\ m.mag # <<"0">>, mag |-> m.mag]]

\* ScanUint with the range and the sign of an int64
ScanUint_Int64Range(val) == ScanInt(val)

\* fmt.Sscan(val, &c.GUID) and the other uint64 fields: no sign is accepted
ScanUint(val) ==
    LET s0 == TrimLeft(val, Space)
        m  == ScanMagnitude(s0)
    IN  IF s0 = <<>> THEN ScanFailed("unexpected EOF")
        ELSE IF ~m.ok THEN ScanFailed(m.why)
        ELSE IF ~DigitsLeq(m.mag, MaxUint64) THEN ScanFailed("value out of range")
        ELSE [ok |-> TRUE, why |-> "", v |-> [neg |-> FALSE, mag |-> m.mag]]

-----------------------------------------------------------------------------
(* Field names and errors.                                                 *)

type == <<"t","y","p","e">>
version == <<"v","e","r","s","i","o","n">>
name == <<"n","a","m","e">>
id == <<"i","d">>
guid == <<"g","u","i","d">>
path == <<"p","a","t","h">>
whole_disk == <<"w","h","o","l","e","_","d","i","s","k">>
metaslab_array == <<"m","e","t","a","s","l","a","b","_","a","r","r","a","y">>
metaslab_shift == <<"m","e","t","a","s","l","a","b","_","s","h","i","f","t">>
ashift == <<"a","s","h","i","f","t">>
asize == <<"a","s","i","z","e">>
is_log == <<"i","s","_","l","o","g">>
create_txg == <<"c","r","e","a","t","e","_","t","x","g">>

IntFields == {id, whole_disk, metaslab_array, metaslab_shift, ashift, is_log}
UintFields == {guid, asize, create_txg}

NilErr == [kind |-> "nil"]
\* fmt.Errorf("failed to parse <field>: %w", err)
FieldErr(prop, why) == [kind |-> "failed to parse", field |-> prop, cause |-> why]
\* fmt.Errorf("no output from zdb for pool %s", name)
NoOutputErr(poolName) == [kind |-> "no output from zdb for pool", pool |-> poolName]
\* the *CmdError RunBytes wraps a runner failure in
CmdErr(args) == [kind |-> "CmdError", Args |-> args]

-----------------------------------------------------------------------------
(* ZDBPool, ZDBPoolChild and the heap of backing arrays.                   *)

NilSlice == [arr |-> 0, len |-> 0, cap |-> 0]

ZeroChild ==
    [Type |-> <<>>, ID |-> Zero, GUID |-> Zero, Path |-> <<>>,
     WholeDisk |-> Zero, MetaslabArray |-> Zero, MetaslabShift |-> Zero,
     Ashift |-> Zero, Asize |-> Zero, IsLog |-> Zero, CreateTXG |-> Zero,
     Properties |-> <<>>, Children |-> NilSlice]

\* m[k] = v on a map
MapPut(m, k, v) == [x \in DOMAIN m \cup {k} |-> IF x = k THEN v ELSE m[x]]

\* ZDBPool.parseLine
parseLine(p, prop, val) ==
    IF prop = version THEN [p EXCEPT !.Version = val]
    ELSE IF prop = name THEN [p EXCEPT !.Name = val]
    ELSE p

\* the typed field a recognised numeric property is scanned into
TypedField(prop) ==
    CASE prop = id -> "ID" [] prop = guid -> "GUID"
      [] prop = whole_disk -> "WholeDisk" [] prop = metaslab_array -> "MetaslabArray"
      [] prop = metaslab_shift -> "MetaslabShift" [] prop = ashift -> "Ashift"
      [] prop = asize -> "Asize" [] prop = is_log -> "IsLog"
      [] prop = create_txg -> "CreateTXG"

Sscan(prop, val) == IF prop \in UintFields THEN ScanUint(val) ELSE ScanInt(val)

\* parseProp that drops the error of a failed Sscan and returns nil
parseProp_ScanErrorDropped(c, prop, val) ==
    LET c1 == [c EXCEPT !.Properties = MapPut(c.Properties, prop, val)]
    IN  IF prop = type THEN [child |-> [c1 EXCEPT !.Type = val], err |-> NilErr]
        ELSE IF prop = path THEN [child |-> [c1 EXCEPT !.Path = val], err |-> NilErr]
        ELSE IF prop \in IntFields \cup UintFields /\ Sscan(prop, val).ok
             THEN [child |-> [c1 EXCEPT ![TypedField(prop)] = Sscan(prop, val).v],
                   err |-> NilErr]
        ELSE [child |-> c1, err |-> NilErr]

\* parseProp that records in Properties only the fields it has no typed field for
parseProp_TypedNotRecorded(c, prop, val) ==
    LET c1 == [c EXCEPT !.Properties = MapPut(c.Properties, prop, val)]
    IN  IF prop = type THEN [child |-> [c EXCEPT !.Type = val], err |-> NilErr]
        ELSE IF prop = path THEN [child |-> [c EXCEPT !.Path = val], err |-> NilErr]
        ELSE IF prop \in IntFields \cup UintFields
             THEN LET r == Sscan(prop, val)
                  IN  IF r.ok
                      THEN [child |-> [c EXCEPT ![TypedField(prop)] = r.v],
                            err |-> NilErr]
                      ELSE [child |-> c, err |-> FieldErr(prop, r.why)]
        ELSE [child |-> c1, err |-> NilErr]

\* ZDBPoolChild.parseProp: the child after the call and the error returned
parseProp(c, prop, val) ==
    LET c1 == [c EXCEPT !.Properties = MapPut(c.Properties, prop, val)]
    IN  IF prop = type THEN [child |-> [c1 EXCEPT !.Type = val], err |-> NilErr]
        ELSE IF prop = path THEN [child |-> [c1 EXCEPT !.Path = val], err |-> NilErr]
        ELSE IF prop \in IntFields \cup UintFields
             THEN LET r == Sscan(prop, val)
                  IN  IF r.ok
                      THEN [child |-> [c1 EXCEPT ![TypedField(prop)] = r.v],
                            err |-> NilErr]
                      ELSE [child |-> c1, err |-> FieldErr(prop, r.why)]
        ELSE [child |-> c1, err |-> NilErr]

\* the capacity append gives a full slice of ZDBPoolChild (doubling)
GrowCap(cap) == IF cap = 0 THEN 1 ELSE 2 * cap

\* AppendSlice whose new backing array does not receive the old elements
AppendSlice_NoCopy(arrays, s, elem) ==
    IF s.len < s.cap
    THEN [arrays |-> [arrays EXCEPT ![s.arr][s.len + 1] = elem],
          slice  |-> [s EXCEPT !.len = s.len + 1]]
    ELSE LET newcap == GrowCap(s.cap)
             fresh  == [i \in 1..newcap |->
                          IF i = s.len + 1 THEN elem ELSE ZeroChild]
         IN  [arrays |-> Append(arrays, fresh),
              slice  |-> [arr |-> Len(arrays) + 1, len |-> s.len + 1, cap |-> newcap]]

\* append(s, elem): in place while len < cap, else into a new backing array
AppendSlice(arrays, s, elem) ==
    IF s.len < s.cap
    THEN [arrays |-> [arrays EXCEPT ![s.arr][s.len + 1] = elem],
          slice  |-> [s EXCEPT !.len = s.len + 1]]
    ELSE LET newcap == GrowCap(s.cap)
             fresh  == [i \in 1..newcap |->
                          IF i <= s.len THEN arrays[s.arr][i]
                          ELSE IF i = s.len + 1 THEN elem
                          ELSE ZeroChild]
         IN  [arrays |-> Append(arrays, fresh),
              slice  |-> [arr |-> Len(arrays) + 1, len |-> s.len + 1, cap |-> newcap]]

\* ZDBPoolChild{Type: val, Properties: map[string]string{"type": val}}
NewChild(val) == [ZeroChild EXCEPT !.Type = val, !.Properties = MapPut(<<>>, type, val)]

\* PopFrames with `<` for `<=`: a frame opened at the line's own depth stays open
RECURSIVE PopFrames_Strict(_, _)
PopFrames_Strict(stack, indent) ==
    IF Len(stack) > 0 /\ indent < stack[Len(stack)].indent
    THEN PopFrames_Strict(SubSeq(stack, 1, Len(stack) - 1), indent)
    ELSE stack

\* PopFrames with `if` for `for`: at most one frame is popped
PopFrames_Once(stack, indent) ==
    IF Len(stack) > 0 /\ indent <= stack[Len(stack)].indent
    THEN SubSeq(stack, 1, Len(stack) - 1)
    ELSE stack

\* for len(stack) > 0 && indent <= stack[len(stack)-1].indent { pop }
RECURSIVE PopFrames(_, _)
PopFrames(stack, indent) ==
    IF Len(stack) > 0 /\ indent <= stack[Len(stack)].indent
    THEN PopFrames(SubSeq(stack, 1, Len(stack) - 1), indent)
    ELSE stack

\* OpenChild with stack[0] for stack[len(stack)-1]: the new child is appended
\* to the node of the bottom frame while frames into its Children are open
OpenChild_BottomParent(ps, indent, val) ==
    LET stack1 == PopFrames(ps.stack, indent)
    IN  IF Len(stack1) = 0
        THEN LET r == AppendSlice(ps.arrays, ps.pool.Children, NewChild(val))
             IN  [ps EXCEPT !.pool.Children = r.slice,
                            !.arrays = r.arrays,
                            !.stack = Append(stack1,
                                [child  |-> [arr |-> r.slice.arr, idx |-> r.slice.len],
                                 indent |-> indent])]
        ELSE LET parent == stack1[1].child
                 r == AppendSlice(ps.arrays,
                                  ps.arrays[parent.arr][parent.idx].Children,
                                  NewChild(val))
             IN  [ps EXCEPT !.arrays =
                                [r.arrays EXCEPT ![parent.arr][parent.idx].Children = r.slice],
                            !.stack = Append(stack1,
                                [child  |-> [arr |-> r.slice.arr, idx |-> r.slice.len],
                                 indent |-> indent])]

\* the `type` branch of the loop: pop, append the new child, push its address
OpenChild(ps, indent, val) ==
    LET stack1 == PopFrames(ps.stack, indent)
    IN  IF Len(stack1) = 0
        THEN LET r == AppendSlice(ps.arrays, ps.pool.Children, NewChild(val))
             IN  [ps EXCEPT !.pool.Children = r.slice,
                            !.arrays = r.arrays,
                            !.stack = Append(stack1,
                                [child  |-> [arr |-> r.slice.arr, idx |-> r.slice.len],
                                 indent |-> indent])]
        ELSE LET parent == stack1[Len(stack1)].child
                 r == AppendSlice(ps.arrays,
                                  ps.arrays[parent.arr][parent.idx].Children,
                                  NewChild(val))
             IN  [ps EXCEPT !.arrays =
                                [r.arrays EXCEPT ![parent.arr][parent.idx].Children = r.slice],
                            !.stack = Append(stack1,
                                [child  |-> [arr |-> r.slice.arr, idx |-> r.slice.len],
                                 indent |-> indent])]

\* current := stack[len(stack)-1].child; current.parseProp(prop, val)
AttachProp(ps, prop, val) ==
    LET current == ps.stack[Len(ps.stack)].child
        r == parseProp(ps.arrays[current.arr][current.idx], prop, val)
    IN  [ps EXCEPT !.arrays[current.arr][current.idx] = r.child, !.err = r.err]

\* IsPoolLine without the len(stack) == 0 test
IsPoolLine_AnyStack(stack, prop) == prop = version \/ prop = name

\* len(stack) == 0 && (prop == "version" || prop == "name")
IsPoolLine(stack, prop) == Len(stack) = 0 /\ (prop = version \/ prop = name)

\* LineStep that picks the node of a property line by the line's depth, as it
\* does for a `type` line
LineStep_ByDepth(ps, indent, prop, val) ==
    IF IsPoolLine(ps.stack, prop)
    THEN [ps EXCEPT !.pool = parseLine(ps.pool, prop, val)]
    ELSE IF prop = type THEN OpenChild(ps, indent, val)
    ELSE IF Len(PopFrames(ps.stack, indent)) = 0 THEN ps
    ELSE [AttachProp([ps EXCEPT !.stack = PopFrames(ps.stack, indent)], prop, val)
             EXCEPT !.stack = ps.stack]

\* the body of the loop once prop and val are known
LineStep(ps, indent, prop, val) ==
    IF IsPoolLine(ps.stack, prop)
    THEN [ps EXCEPT !.pool = parseLine(ps.pool, prop, val)]
    ELSE IF prop = type THEN OpenChild(ps, indent, val)
    ELSE IF Len(ps.stack) = 0 THEN ps
    ELSE AttachProp(ps, prop, val)

\* ParseLine that takes a line without a colon as a property with no value
ParseLine_NoColonAsProp(ps, rawLine) ==
    IF TrimSpace(rawLine) = <<>> THEN ps
    ELSE LET indent  == CountIndent(rawLine)
             trimmed == TrimLeft(rawLine, {TAB, " "})
             parts   == SplitN2(trimmed, ":")
         IN  IF Len(parts) # 2 THEN LineStep(ps, indent, TrimSpace(trimmed), <<>>)
             ELSE LineStep(ps, indent, TrimSpace(parts[1]), TrimSpace(parts[2]))

\* one iteration of `for _, rawLine := range lines`
ParseLine(ps, rawLine) ==
    IF TrimSpace(rawLine) = <<>> THEN ps
    ELSE LET indent  == CountIndent(rawLine)
             trimmed == TrimLeft(rawLine, {TAB, " "})
             parts   == SplitN2(trimmed, ":")
         IN  IF Len(parts) # 2 THEN ps
             ELSE LineStep(ps, indent, TrimSpace(parts[1]), TrimSpace(parts[2]))

\* pool := &ZDBPool{Name: name, GUID: currentGUID, Children: make(.., 0)}; var stack
NewParse(poolName, currentGUID) ==
    [pool   |-> [Name |-> poolName, GUID |-> currentGUID, Version |-> <<>>,
                 Children |-> NilSlice],
     arrays |-> <<>>,
     stack  |-> <<>>,
     err    |-> NilErr]

\* the whole loop: stops at the first line whose parseProp fails
RECURSIVE ParseLines(_, _)
ParseLines(ps, lines) ==
    IF lines = <<>> \/ ps.err # NilErr THEN ps
    ELSE ParseLines(ParseLine(ps, Head(lines)), Tail(lines))

\* the tree a slice header denotes, children nested as values
RECURSIVE View(_, _)
View(arrays, s) ==
    [i \in 1..s.len |->
        [arrays[s.arr][i] EXCEPT !.Children = View(arrays, arrays[s.arr][i].Children)]]

\* the record *ZDBPool as its holder reads it
PoolView(ps) == [ps.pool EXCEPT !.Children = View(ps.arrays, ps.pool.Children)]

\* zdbOutput on the runner's stdout: TrimRight "\n", then Split "\n"
zdbOutput(stdout) ==
    LET text == TrimRight(stdout, {NL})
    IN  IF text = <<>> THEN <<>> ELSE Split(text, NL)

-----------------------------------------------------------------------------
(* The parser run: one GetPool call of a client without caching, followed  *)
(* through the loop one line at a time.                                    *)

Tabs(n) == [i \in 1..n |-> TAB]

\* the raw lines the runner's text is made of
LineSet ==
    { version \o <<":", " ", "5">>,                               \* version: 5
      Tabs(2) \o name \o <<":", " ", "t">>,                       \* name: t, indented
      <<" ", TAB>> \o type \o <<" ", ":", "d">>,                  \* type at depth 0
      Tabs(1) \o type \o <<":", " ", "r">>,                       \* type at depth 1
      Tabs(2) \o type \o <<":", " ", "m">>,                       \* type at depth 2
      Tabs(2) \o id \o <<":", " ", "1", "7">>,                    \* id: 17
      Tabs(1) \o guid \o <<":", " ", "a">>,                       \* guid: a
      Tabs(3) \o path \o <<":", " ", "/", ":", "b", " ">>,        \* path: /:b
      <<" ", " ">>,                                               \* blanks only
      <<"z">> }                                                   \* no colon

LineSeqs == UNION {[1..n -> LineSet] : n \in 0..MaxLines}

tank == <<"t","a","n","k">>
NilPool == [nil |-> TRUE]

\* values for the scanned fields: 0, 17, 017, -1, a, the empty value, and the
\* largest int64 and uint64 with their successors
ScanValues ==
    {<<"0">>, <<"1", "7">>, <<"0", "1", "7">>, <<"-", "1">>, <<"a">>, <<>>,
     MaxInt64, MinInt64Magnitude, MaxUint64,
     SubSeq(MaxUint64, 1, 19) \o <<"6">>}

\* a node, one scanned field under it, and one more line
FieldTexts ==
    {<<Tabs(1) \o type \o <<":", " ", "r">>,
       Tabs(2) \o f \o <<":", " ">> \o v,
       Tabs(2) \o path \o <<":", " ", "/">>>> :
        f \in IntFields \cup UintFields, v \in ScanValues}

\* a node with fields given twice, the second value differing from the first
DupTexts ==
    {<<Tabs(1) \o type \o <<":", " ", "r">>,
       Tabs(2) \o id \o <<":", " ", "1", "7">>,
       Tabs(2) \o path \o <<":", " ", "/">>,
       Tabs(3) \o path \o <<":", " ", "/", ":", "b", " ">>>>,
     <<Tabs(1) \o type \o <<":", " ", "r">>,
       Tabs(2) \o id \o <<":", " ", "1", "7">>,
       Tabs(2) \o type \o <<":", " ", "m">>,
       Tabs(1) \o id \o <<":", " ", "0">>,
       Tabs(2) \o id \o <<":", " ", "0", "1", "7">>>>}

\* testutil.ZDBOutput, line by line
ZDBOutput ==
    <<<<"v","e","r","s","i","o","n",":"," ","5","0","0","0">>,
      <<"n","a","m","e",":"," ","t","a","n","k">>,
      <<TAB,"t","y","p","e",":"," ","r","o","o","t">>,
      <<TAB,TAB,"i","d",":"," ","0">>,
      <<TAB,TAB,"g","u","i","d",":"," ",
        "1","2","3","4","5","6","7","8","9","0","1","2","3","4","5","6","7","8","9","0">>,
      <<TAB,TAB,"p","a","t","h",":"," ","/","d","e","v","/","a","d","a","0","p","3">>,
      <<TAB,TAB,"w","h","o","l","e","_","d","i","s","k",":"," ","0">>,
      <<TAB,TAB,"m","e","t","a","s","l","a","b","_","a","r","r","a","y",":"," ","7","1">>,
      <<TAB,TAB,"m","e","t","a","s","l","a","b","_","s","h","i","f","t",":"," ","2","4">>,
      <<TAB,TAB,"a","s","h","i","f","t",":"," ","9">>,
      <<TAB,TAB,"a","s","i","z","e",":"," ","1","0","7","3","7","4","1","8","2","4","0">>,
      <<TAB,TAB,"i","s","_","l","o","g",":"," ","0">>,
      <<TAB,TAB,"c","r","e","a","t","e","_","t","x","g",":"," ","4">>>>

ParseInit ==
    run \in {[pc |-> "fetch", poolName |-> tank, currentGUID |-> <<"9">>,
              stdout |-> Join(ls, NL), lines |-> <<>>, i |-> 0,
              ps |-> NewParse(<<>>, <<>>),
              ret |-> [pool |-> NilPool, err |-> NilErr]] :
                 ls \in LineSeqs \cup FieldTexts \cup DupTexts \cup {ZDBOutput}}

\* lines, err := z.zdbOutput(ctx, args...) with a runner that succeeds
ParseFetch ==
    /\ run.pc = "fetch"
    /\ run' = [run EXCEPT !.pc = "check", !.lines = zdbOutput(run.stdout)]
    /\ UNCHANGED cacheVars

\* if len(lines) == 0 { return nil, no output }; pool := ...; var stack
ParseCheck ==
    /\ run.pc = "check"
    /\ IF Len(run.lines) = 0
       THEN run' = [run EXCEPT !.pc = "done",
                               !.ret = [pool |-> NilPool, err |-> NoOutputErr(run.poolName)]]
       ELSE run' = [run EXCEPT !.pc = "loop", !.i = 1,
                               !.ps = NewParse(run.poolName, run.currentGUID)]
    /\ UNCHANGED cacheVars

\* one iteration of the loop; a parseProp error returns nil, err
ParseNext ==
    /\ run.pc = "loop"
    /\ run.i <= Len(run.lines)
    /\ LET ps1 == ParseLine(run.ps, run.lines[run.i])
       IN  IF ps1.err # NilErr
           THEN run' = [run EXCEPT !.pc = "done", !.ps = ps1,
                                   !.ret = [pool |-> NilPool, err |-> ps1.err]]
           ELSE run' = [run EXCEPT !.i = run.i + 1, !.ps = ps1]
    /\ UNCHANGED cacheVars

\* the loop is over and caching is disabled: return pool, nil
ParseReturn ==
    /\ run.pc = "loop"
    /\ run.i > Len(run.lines)
    /\ run' = [run EXCEPT !.pc = "done",
                          !.ret = [pool |-> PoolView(run.ps), err |-> NilErr]]
    /\ UNCHANGED cacheVars

ParseStep == ParseFetch \/ ParseCheck \/ ParseNext \/ ParseReturn

-----------------------------------------------------------------------------
(* GetPool with the cache: goroutines calling GetPool on clients that      *)
(* share the package-level zdbCache.                                       *)

Procs == {1, 2}
Clients == {1, 2}

\* the texts the runner's command prints
GoodText1 == Join(<<version \o <<":", " ", "5">>, Tabs(1) \o type \o <<":", " ", "r">>>>, NL)
                \o <<NL>>
GoodText2 == Join(<<Tabs(1) \o type \o <<":", " ", "d">>,
                    Tabs(2) \o id \o <<":", " ", "7">>>>, NL)
BadFieldText == Join(<<Tabs(1) \o type \o <<":", " ", "r">>,
                       Tabs(2) \o guid \o <<":", " ", "a">>>>, NL)
BlankText == <<" ", NL>>
Stdouts == {<<>>, <<NL, NL>>, BlankText, BadFieldText, GoodText1, GoodText2}

\* what one invocation of the runner gives RunBytes: an error, or stdout
RunnerResults == {[failed |-> TRUE, stdout |-> <<>>]}
                 \cup {[failed |-> FALSE, stdout |-> t] : t \in Stdouts}

\* CacheKey that leaves the GUID out
CacheKey_NameOnly(poolName, currentGUID) == poolName

\* cacheKey := name; if currentGUID != "" { cacheKey = name + "|" + currentGUID }
CacheKey(poolName, currentGUID) ==
    IF currentGUID # <<>> THEN poolName \o <<"|">> \o currentGUID ELSE poolName

\* CacheEnabled with `>= 0` for `> 0`
CacheEnabled_AtZero(ttl) == ttl >= 0

\* cacheEnabled := z.cacheTTL > 0
CacheEnabled(ttl) == ttl > 0

\* Before with !After: an entry is still served at the instant it expires
Before_OrEqual(t, expiry) == t <= expiry

\* time.Now().Before(entry.expiry)
Before(t, expiry) == t < expiry

\* entry, ok := zdbCache[cacheKey]; ok && time.Now().Before(entry.expiry)
IsLive(cache, key, t) == key \in DOMAIN cache /\ Before(t, cache[key].expiry)

\* NewEntry whose expiry is time.Now() without the Add
NewEntry_NoTTL(pool, currentGUID, t, ttl) ==
    [pool |-> pool, guid |-> currentGUID, expiry |-> t]

\* NewEntry whose expiry is two TTLs away
NewEntry_TwiceTTL(pool, currentGUID, t, ttl) ==
    [pool |-> pool, guid |-> currentGUID, expiry |-> t + 2 * ttl]

\* zdbCacheEntry{pool: pool, guid: currentGUID, expiry: time.Now().Add(z.cacheTTL)}
NewEntry(pool, currentGUID, t, ttl) ==
    [pool |-> pool, guid |-> currentGUID, expiry |-> t + ttl]

IdleFrame ==
    [client |-> 0, poolName |-> <<>>, currentGUID |-> <<>>, cacheEnabled |-> FALSE,
     cacheKey |-> <<>>, stdout |-> <<>>, lines |-> <<>>, err |-> NilErr, pool |-> 0]

NoReturn == [pool |-> 0, err |-> NilErr]

\* history of a call: the cache map, the number of runner invocations and of
\* records allocated as it began, and the key, client and outcome of the call
\* the goroutine made before
NoCallYet ==
    [zdbCache |-> <<>>, invocations |-> 0, pools |-> 0,
     lastKey |-> <<>>, lastClient |-> 0, lastFailed |-> FALSE]

\* time.Second and time.Minute, the clock of the model counting seconds
Second == 1
Minute == 60

\* NewClient with the value `<= 0` selects the default for
NewClient_DefaultAtZero(seconds) ==
    IF seconds <= 0 THEN 5 * Minute ELSE seconds * Second

\* NewClient: zdbCacheTTL := time.Duration(opts.ZDBCacheTTLSeconds) * time.Second;
\* if opts.ZDBCacheTTLSeconds < 0 { zdbCacheTTL = 5 * time.Minute }
NewClient(seconds) ==
    IF seconds < 0 THEN 5 * Minute ELSE seconds * Second

\* the clients have been made by NewClient with one of the given options
CacheInit(options) ==
    /\ now = 0
    /\ ticks = 0
    /\ ZDBCacheTTLSeconds \in options
    /\ cacheTTL = [c \in Clients |-> NewClient(ZDBCacheTTLSeconds[c])]
    /\ zdbCache = <<>>
    /\ zdbCacheMutex = [readers |-> {}, writer |-> 0]
    /\ pools = <<>>
    /\ CallHistory = <<>>
    /\ pc = [p \in Procs |-> "idle"]
    /\ frame = [p \in Procs |-> IdleFrame]
    /\ ret = [p \in Procs |-> NoReturn]
    /\ calls = 0
    /\ atCall = [p \in Procs |-> NoCallYet]
    /\ lastStore = <<>>

ParseIdle ==
    run = [pc |-> "off", poolName |-> <<>>, currentGUID |-> <<>>, stdout |-> <<>>,
           lines |-> <<>>, i |-> 0, ps |-> NewParse(<<>>, <<>>),
           ret |-> [pool |-> NilPool, err |-> NilErr]]

\* GetPool is entered: cacheEnabled and cacheKey are computed
GetPoolBegin(p, c, poolName, currentGUID) ==
    /\ pc[p] = "idle"
    /\ calls < MaxCalls
    /\ calls' = calls + 1
    /\ frame' = [frame EXCEPT ![p] =
                    [IdleFrame EXCEPT !.client = c, !.poolName = poolName,
                                      !.currentGUID = currentGUID,
                                      !.cacheEnabled = CacheEnabled(cacheTTL[c]),
                                      !.cacheKey = CacheKey(poolName, currentGUID)]]
    /\ pc' = [pc EXCEPT ![p] = IF CacheEnabled(cacheTTL[c]) THEN "RLock"
                                ELSE "zdbOutput"]
    /\ atCall' = [atCall EXCEPT ![p] =
                    [zdbCache |-> zdbCache, invocations |-> Len(CallHistory),
                     pools |-> Len(pools), lastKey |-> frame[p].cacheKey,
                     lastClient |-> frame[p].client,
                     lastFailed |-> (ret[p].err # NilErr)]]
    /\ UNCHANGED <<now, ticks, ZDBCacheTTLSeconds, cacheTTL, lastStore, zdbCache, zdbCacheMutex, pools,
                   CallHistory, ret, run>>

\* zdbCacheMutex.RLock()
RLock(p) ==
    /\ pc[p] = "RLock"
    /\ zdbCacheMutex.writer = 0
    /\ zdbCacheMutex' = [zdbCacheMutex EXCEPT !.readers = @ \cup {p}]
    /\ pc' = [pc EXCEPT ![p] = "lookup"]
    /\ UNCHANGED <<now, ticks, ZDBCacheTTLSeconds, cacheTTL, lastStore, zdbCache, pools, CallHistory, frame,
                   ret, calls, atCall, run>>

\* Lookup that deletes the entry it finds expired
Lookup_DeletesExpired(p) ==
    /\ pc[p] = "lookup"
    /\ zdbCacheMutex' = [zdbCacheMutex EXCEPT !.readers = @ \ {p}]
    /\ IF IsLive(zdbCache, frame[p].cacheKey, now)
       THEN /\ ret' = [ret EXCEPT ![p] =
                          [pool |-> zdbCache[frame[p].cacheKey].pool, err |-> NilErr]]
            /\ pc' = [pc EXCEPT ![p] = "done"]
            /\ UNCHANGED zdbCache
       ELSE /\ pc' = [pc EXCEPT ![p] = "zdbOutput"]
            /\ zdbCache' = [k \in DOMAIN zdbCache \ {frame[p].cacheKey} |-> zdbCache[k]]
            /\ UNCHANGED ret
    /\ UNCHANGED <<now, ticks, ZDBCacheTTLSeconds, cacheTTL, lastStore, pools, CallHistory, frame,
                   calls, atCall, run>>

\* Lookup that releases the read lock on a hit only (as with a deferred
\* RUnlock missing on the miss path)
Lookup_KeepsRLockOnMiss(p) ==
    /\ pc[p] = "lookup"
    /\ IF IsLive(zdbCache, frame[p].cacheKey, now)
       THEN /\ ret' = [ret EXCEPT ![p] =
                          [pool |-> zdbCache[frame[p].cacheKey].pool, err |-> NilErr]]
            /\ pc' = [pc EXCEPT ![p] = "done"]
            /\ zdbCacheMutex' = [zdbCacheMutex EXCEPT !.readers = @ \ {p}]
       ELSE /\ pc' = [pc EXCEPT ![p] = "zdbOutput"]
            /\ UNCHANGED <<ret, zdbCacheMutex>>
    /\ UNCHANGED <<now, ticks, ZDBCacheTTLSeconds, cacheTTL, lastStore, zdbCache, pools, CallHistory, frame,
                   calls, atCall, run>>

\* the map lookup under the read lock, RUnlock, and the return on a hit
Lookup(p) ==
    /\ pc[p] = "lookup"
    /\ zdbCacheMutex' = [zdbCacheMutex EXCEPT !.readers = @ \ {p}]
    /\ IF IsLive(zdbCache, frame[p].cacheKey, now)
       THEN /\ ret' = [ret EXCEPT ![p] =
                          [pool |-> zdbCache[frame[p].cacheKey].pool, err |-> NilErr]]
            /\ pc' = [pc EXCEPT ![p] = "done"]
       ELSE /\ pc' = [pc EXCEPT ![p] = "zdbOutput"]
            /\ UNCHANGED ret
    /\ UNCHANGED <<now, ticks, ZDBCacheTTLSeconds, cacheTTL, lastStore, zdbCache, pools, CallHistory, frame,
                   calls, atCall, run>>

\* Fetch that invokes the runner a second time when the first attempt failed
Fetch_Retries(p, r) ==
    /\ pc[p] = "zdbOutput"
    /\ CallHistory' =
          IF r.failed
          THEN CallHistory \o <<[Args |-> <<"-C", frame[p].poolName>>],
                                [Args |-> <<"-C", frame[p].poolName>>]>>
          ELSE Append(CallHistory, [Args |-> <<"-C", frame[p].poolName>>])
    /\ frame' = [frame EXCEPT ![p].stdout = r.stdout,
                              ![p].lines = IF r.failed THEN <<>> ELSE zdbOutput(r.stdout),
                              ![p].err = IF r.failed
                                         THEN CmdErr(<<"-C", frame[p].poolName>>)
                                         ELSE NilErr]
    /\ pc' = [pc EXCEPT ![p] = "parse"]
    /\ UNCHANGED <<now, ticks, ZDBCacheTTLSeconds, cacheTTL, lastStore, zdbCache, zdbCacheMutex, pools, ret,
                   calls, atCall, run>>

\* lines, err := z.zdbOutput(ctx, args...): the runner is invoked once
Fetch(p, r) ==
    /\ pc[p] = "zdbOutput"
    /\ CallHistory' = Append(CallHistory, [Args |-> <<"-C", frame[p].poolName>>])
    /\ frame' = [frame EXCEPT ![p].stdout = r.stdout,
                              ![p].lines = IF r.failed THEN <<>> ELSE zdbOutput(r.stdout),
                              ![p].err = IF r.failed
                                         THEN CmdErr(<<"-C", frame[p].poolName>>)
                                         ELSE NilErr]
    /\ pc' = [pc EXCEPT ![p] = "parse"]
    /\ UNCHANGED <<now, ticks, ZDBCacheTTLSeconds, cacheTTL, lastStore, zdbCache, zdbCacheMutex, pools, ret,
                   calls, atCall, run>>

\* ParseOutcome that goes on after a parseProp error and returns the pool
ParseOutcome_ErrorDropped(f) ==
    IF f.err # NilErr THEN [err |-> f.err, pool |-> NilPool]
    ELSE IF Len(f.lines) = 0 THEN [err |-> NoOutputErr(f.poolName), pool |-> NilPool]
    ELSE [err |-> NilErr,
          pool |-> PoolView(ParseLines(NewParse(f.poolName, f.currentGUID), f.lines))]

\* ParseOutcome whose parser keeps the Version it read on the call before
ParseOutcome_KeepsVersion(f) ==
    LET ps0 == NewParse(f.poolName, f.currentGUID)
        ps  == ParseLines(
                 IF pools = <<>> THEN ps0
                 ELSE [ps0 EXCEPT !.pool.Version = pools[Len(pools)].Version],
                 f.lines)
    IN  IF f.err # NilErr THEN [err |-> f.err, pool |-> NilPool]
        ELSE IF Len(f.lines) = 0 THEN [err |-> NoOutputErr(f.poolName), pool |-> NilPool]
        ELSE IF ps.err # NilErr THEN [err |-> ps.err, pool |-> NilPool]
        ELSE [err |-> NilErr, pool |-> PoolView(ps)]

\* the outcome of lines 153-230: the error returned, or the record built
ParseOutcome(f) ==
    IF f.err # NilErr THEN [err |-> f.err, pool |-> NilPool]
    ELSE IF Len(f.lines) = 0 THEN [err |-> NoOutputErr(f.poolName), pool |-> NilPool]
    ELSE LET ps == ParseLines(NewParse(f.poolName, f.currentGUID), f.lines)
         IN  IF ps.err # NilErr THEN [err |-> ps.err, pool |-> NilPool]
             ELSE [err |-> NilErr, pool |-> PoolView(ps)]

\* Parse that deletes the key's entry when the fetch or the parse failed
Parse_ErrorEvicts(p) ==
    /\ pc[p] = "parse"
    /\ LET out == ParseOutcome(frame[p])
       IN  IF out.err # NilErr
           THEN /\ ret' = [ret EXCEPT ![p] = [pool |-> 0, err |-> out.err]]
                /\ pc' = [pc EXCEPT ![p] = "done"]
                /\ zdbCache' = [k \in DOMAIN zdbCache \ {frame[p].cacheKey} |->
                                    zdbCache[k]]
                /\ UNCHANGED <<pools, frame>>
           ELSE /\ pools' = Append(pools, out.pool)
                /\ frame' = [frame EXCEPT ![p].pool = Len(pools) + 1]
                /\ IF frame[p].cacheEnabled
                   THEN /\ pc' = [pc EXCEPT ![p] = "Lock"]
                        /\ UNCHANGED ret
                   ELSE /\ pc' = [pc EXCEPT ![p] = "done"]
                        /\ ret' = [ret EXCEPT ![p] =
                                      [pool |-> Len(pools) + 1, err |-> NilErr]]
                /\ UNCHANGED zdbCache
    /\ UNCHANGED <<now, ticks, ZDBCacheTTLSeconds, cacheTTL, lastStore, zdbCacheMutex, CallHistory,
                   calls, atCall, run>>

\* the error checks and the parse loop; without caching, the return
Parse(p) ==
    /\ pc[p] = "parse"
    /\ LET out == ParseOutcome(frame[p])
       IN  IF out.err # NilErr
           THEN /\ ret' = [ret EXCEPT ![p] = [pool |-> 0, err |-> out.err]]
                /\ pc' = [pc EXCEPT ![p] = "done"]
                /\ UNCHANGED <<pools, frame>>
           ELSE /\ pools' = Append(pools, out.pool)
                /\ frame' = [frame EXCEPT ![p].pool = Len(pools) + 1]
                /\ IF frame[p].cacheEnabled
                   THEN /\ pc' = [pc EXCEPT ![p] = "Lock"]
                        /\ UNCHANGED ret
                   ELSE /\ pc' = [pc EXCEPT ![p] = "done"]
                        /\ ret' = [ret EXCEPT ![p] =
                                      [pool |-> Len(pools) + 1, err |-> NilErr]]
    /\ UNCHANGED <<now, ticks, ZDBCacheTTLSeconds, cacheTTL, lastStore, zdbCache, zdbCacheMutex, CallHistory,
                   calls, atCall, run>>

\* Lock that waits for the writer only, not for the readers
Lock_IgnoresReaders(p) ==
    /\ pc[p] = "Lock"
    /\ zdbCacheMutex.writer = 0
    /\ zdbCacheMutex' = [zdbCacheMutex EXCEPT !.writer = p]
    /\ pc' = [pc EXCEPT ![p] = "store"]
    /\ UNCHANGED <<now, ticks, ZDBCacheTTLSeconds, cacheTTL, lastStore, zdbCache, pools, CallHistory, frame,
                   ret, calls, atCall, run>>

\* zdbCacheMutex.Lock()
Lock(p) ==
    /\ pc[p] = "Lock"
    /\ zdbCacheMutex.writer = 0
    /\ zdbCacheMutex.readers = {}
    /\ zdbCacheMutex' = [zdbCacheMutex EXCEPT !.writer = p]
    /\ pc' = [pc EXCEPT ![p] = "store"]
    /\ UNCHANGED <<now, ticks, ZDBCacheTTLSeconds, cacheTTL, lastStore, zdbCache, pools, CallHistory, frame,
                   ret, calls, atCall, run>>

\* Store that leaves a live entry of the key in place (first writer wins)
Store_KeepsLiveEntry(p) ==
    /\ pc[p] = "store"
    /\ zdbCache' = IF IsLive(zdbCache, frame[p].cacheKey, now) THEN zdbCache
                   ELSE MapPut(zdbCache, frame[p].cacheKey,
                               NewEntry(frame[p].pool, frame[p].currentGUID, now,
                                        cacheTTL[frame[p].client]))
    /\ zdbCacheMutex' = [zdbCacheMutex EXCEPT !.writer = 0]
    /\ ret' = [ret EXCEPT ![p] = [pool |-> frame[p].pool, err |-> NilErr]]
    /\ pc' = [pc EXCEPT ![p] = "done"]
    /\ lastStore' = IF IsLive(zdbCache, frame[p].cacheKey, now) THEN lastStore
                    ELSE MapPut(lastStore, frame[p].cacheKey,
                     [key |-> frame[p].cacheKey, pool |-> frame[p].pool,
                      fresh |-> frame[p].pool > atCall[p].pools,
                      time |-> now, ttl |-> cacheTTL[frame[p].client]])
    /\ UNCHANGED <<now, ticks, ZDBCacheTTLSeconds, cacheTTL, pools, CallHistory, frame, calls,
                   atCall, run>>

\* Store that returns without Unlock
Store_NoUnlock(p) ==
    /\ pc[p] = "store"
    /\ zdbCache' = MapPut(zdbCache, frame[p].cacheKey,
                          NewEntry(frame[p].pool, frame[p].currentGUID, now,
                                   cacheTTL[frame[p].client]))
    /\ ret' = [ret EXCEPT ![p] = [pool |-> frame[p].pool, err |-> NilErr]]
    /\ pc' = [pc EXCEPT ![p] = "done"]
    /\ lastStore' = MapPut(lastStore, frame[p].cacheKey,
                     [key |-> frame[p].cacheKey, pool |-> frame[p].pool,
                      fresh |-> frame[p].pool > atCall[p].pools,
                      time |-> now, ttl |-> cacheTTL[frame[p].client]])
    /\ UNCHANGED <<now, ticks, ZDBCacheTTLSeconds, cacheTTL, zdbCacheMutex, pools,
                   CallHistory, frame, calls, atCall, run>>

\* zdbCache[cacheKey] = zdbCacheEntry{...}; Unlock(); return pool, nil
Store(p) ==
    /\ pc[p] = "store"
    /\ zdbCache' = MapPut(zdbCache, frame[p].cacheKey,
                          NewEntry(frame[p].pool, frame[p].currentGUID, now,
                                   cacheTTL[frame[p].client]))
    /\ zdbCacheMutex' = [zdbCacheMutex EXCEPT !.writer = 0]
    /\ ret' = [ret EXCEPT ![p] = [pool |-> frame[p].pool, err |-> NilErr]]
    /\ pc' = [pc EXCEPT ![p] = "done"]
    /\ lastStore' = MapPut(lastStore, frame[p].cacheKey,
                     [key |-> frame[p].cacheKey, pool |-> frame[p].pool,
                      fresh |-> frame[p].pool > atCall[p].pools,
                      time |-> now, ttl |-> cacheTTL[frame[p].client]])
    /\ UNCHANGED <<now, ticks, ZDBCacheTTLSeconds, cacheTTL, pools, CallHistory, frame, calls,
                   atCall, run>>

\* the caller has its result and may call again
Finish(p) ==
    /\ pc[p] = "done"
    /\ pc' = [pc EXCEPT ![p] = "idle"]
    /\ UNCHANGED <<now, ticks, ZDBCacheTTLSeconds, cacheTTL, lastStore, zdbCache, zdbCacheMutex, pools,
                   CallHistory, frame, ret, calls, atCall, run>>

\* the clock advances by d seconds
Tick(d) ==
    /\ ticks < MaxTicks
    /\ ticks' = ticks + 1
    /\ now' = now + d
    /\ UNCHANGED <<ZDBCacheTTLSeconds, cacheTTL, lastStore, zdbCache, zdbCacheMutex, pools, CallHistory, pc,
                   frame, ret, calls, atCall, run>>

-----------------------------------------------------------------------------
(* Specifications.                                                         *)

a == <<"a">>
b == <<"b">>

\* SpecParse: one call without caching, the parse loop taken line by line
SpecParseInit == CacheInit({[c \in Clients |-> 0]}) /\ ParseInit
SpecParse == SpecParseInit /\ [][ParseStep]_vars

\* SpecSeq: one caller making its calls one after the other, for the pool a
\* with and without a GUID, through two clients that share zdbCache: client 1
\* made with ZDBCacheTTLSeconds -1 or 0 and client 2 with 2
SeqOptions == {[c \in Clients |-> IF c = 1 THEN t ELSE 2] : t \in {-1, 0}}
SeqInit == CacheInit(SeqOptions) /\ ParseIdle
SeqNext ==
    \/ \E c \in Clients, g \in {<<>>, b} : GetPoolBegin(1, c, a, g)
    \/ RLock(1)
    \/ Lookup(1)
    \/ \E r \in RunnerResults : Fetch(1, r)
    \/ Parse(1)
    \/ Lock(1)
    \/ Store(1)
    \/ Finish(1)
    \/ Tick(1)
SpecSeq == SeqInit /\ [][SeqNext]_vars

\* SpecConc: two goroutines calling GetPool(a, "") at the same time through
\* the client with a TTL of 2 seconds, their steps interleaved; the runner
\* fails or prints one of two texts
ConcResults == {[failed |-> TRUE, stdout |-> <<>>]}
               \cup {[failed |-> FALSE, stdout |-> t] : t \in {GoodText1, GoodText2}}
ConcInit == CacheInit({[c \in Clients |-> IF c = 1 THEN 0 ELSE 2]}) /\ ParseIdle
ConcNext ==
    \/ \E p \in Procs : GetPoolBegin(p, 2, a, <<>>)
    \/ \E p \in Procs : RLock(p)
    \/ \E p \in Procs : Lookup(p)
    \/ \E p \in Procs, r \in ConcResults : Fetch(p, r)
    \/ \E p \in Procs : Parse(p)
    \/ \E p \in Procs : Lock(p)
    \/ \E p \in Procs : Store(p)
    \/ \E p \in Procs : Finish(p)
    \/ Tick(1)
SpecConc == ConcInit /\ [][ConcNext]_vars

\* SpecKeys: one caller making its calls one after the other through the
\* client with a TTL of 2 seconds, for the pool a with and without the GUID
\* b and for the name a|b without a GUID; the runner fails or prints one of
\* two texts
KeyArgs == {<<a, <<>>>>, <<a, b>>, <<a \o <<"|">> \o b, <<>>>>}
KeysInit == CacheInit({[c \in Clients |-> IF c = 1 THEN 0 ELSE 2]}) /\ ParseIdle
KeysNext ==
    \/ \E x \in KeyArgs : GetPoolBegin(1, 2, x[1], x[2])
    \/ RLock(1)
    \/ Lookup(1)
    \/ \E r \in ConcResults : Fetch(1, r)
    \/ Parse(1)
    \/ Lock(1)
    \/ Store(1)
    \/ Finish(1)
    \/ Tick(1)
SpecKeys == KeysInit /\ [][KeysNext]_vars

\* SpecTwice: two goroutines calling GetPool at the same time through the
\* client without caching, for the pool a with and without a GUID; the
\* runner fails or prints one of three texts
TwiceResults == ConcResults \cup {[failed |-> FALSE, stdout |-> BadFieldText]}
TwiceInit == CacheInit({[c \in Clients |-> 0]}) /\ ParseIdle
TwiceNext ==
    \/ \E p \in Procs, g \in {<<>>, b} : GetPoolBegin(p, 1, a, g)
    \/ \E p \in Procs, r \in TwiceResults : Fetch(p, r)
    \/ \E p \in Procs : Parse(p)
    \/ \E p \in Procs : Finish(p)
SpecTwice == TwiceInit /\ [][TwiceNext]_vars

-----------------------------------------------------------------------------
(* Reading a raw line, and trees as values: what the parser claims are     *)
(* stated with.                                                            *)

\* the count of leading TABs
DepthOf(l) == Cardinality({i \in 1..Len(l) : \A j \in 1..i : l[j] = TAB})
IsFieldLine(l) ==
    TrimSpace(l) # <<>> /\ Len(SplitN2(TrimLeft(l, {TAB, " "}), ":")) = 2
FieldOf(l) == TrimSpace(SplitN2(TrimLeft(l, {TAB, " "}), ":")[1])
ValueOf(l) == TrimSpace(SplitN2(TrimLeft(l, {TAB, " "}), ":")[2])
IsTypeLine(l) == IsFieldLine(l) /\ FieldOf(l) = type

\* the loop is about to read a line / the line it is about to read
Reading == run.pc = "loop" /\ run.i <= Len(run.lines)
CurLine == run.lines[run.i]
\* a `type` line has been processed
TypeSeen == \E j \in 1..(run.i - 1) : IsTypeLine(run.lines[j])

\* the tree under the pool record, and the index path of the open nodes
Tree(ps) == View(ps.arrays, ps.pool.Children)
StackPath(stack) == [j \in 1..Len(stack) |-> stack[j].child.idx]

RECURSIVE AppendAt(_, _, _)
AppendAt(children, at, node) ==
    IF at = <<>> THEN Append(children, node)
    ELSE [children EXCEPT ![Head(at)].Children = AppendAt(@, Tail(at), node)]

RECURSIVE NodeAt(_, _)
NodeAt(children, at) ==
    IF Len(at) = 1 THEN children[at[1]]
    ELSE NodeAt(children[Head(at)].Children, Tail(at))

RECURSIVE ReplaceAt(_, _, _)
ReplaceAt(children, at, node) ==
    IF Len(at) = 1 THEN [children EXCEPT ![at[1]] = node]
    ELSE [children EXCEPT ![Head(at)].Children = ReplaceAt(@, Tail(at), node)]

\* the node in the heap a stack frame refers to, children nested as values
FrameNode(ps, k) ==
    LET n == ps.arrays[ps.stack[k].child.arr][ps.stack[k].child.idx]
    IN  [n EXCEPT !.Children = View(ps.arrays, n.Children)]

-----------------------------------------------------------------------------
(* Claims about the parser, under SpecParse.                               *)

\* C5: a `type` line at depth d (its count of leading TABs) keeps exactly the
\* stack frames opened at a depth < d and drops those opened at a depth >= d;
\* the new node becomes the last child of the node of the topmost frame
\* kept, or the last top-level child of the pool when no frame is kept, and
\* is pushed with depth d.
C5_TypeLineStep ==
    (Reading /\ IsTypeLine(CurLine)) =>
        LET d    == DepthOf(CurLine)
            keep == SelectSeq(run.ps.stack, LAMBDA f : f.indent < d)
            at   == StackPath(keep)
            node == [NewChild(ValueOf(CurLine)) EXCEPT !.Children = <<>>]
            ps1  == run'.ps
            top  == Len(keep) + 1
        IN  /\ run'.pc = "loop" /\ run'.i = run.i + 1
            /\ Tree(ps1) = AppendAt(Tree(run.ps), at, node)
            /\ Len(ps1.stack) = top
            /\ SubSeq(ps1.stack, 1, Len(keep)) = keep
            /\ ps1.stack[top].indent = d
            /\ FrameNode(ps1, top) = node
            /\ NodeAt(Tree(ps1), StackPath(ps1.stack)) = node
            /\ ps1.stack[top].child.idx =
                 IF at = <<>> THEN Len(Tree(ps1))
                 ELSE Len(NodeAt(Tree(ps1), at).Children)
C5_NestingViaType == [][C5_TypeLineStep]_vars

\* a `type` line has closed an open node and attached under the one left open
C5_Witness ==
    /\ Len(run.ps.stack) = 2
    /\ run.ps.stack[2].child.idx = 2
    /\ Len(Tree(run.ps)[run.ps.stack[1].child.idx].Children) = 2

\* C10: a version or name line sets the pool record's field exactly when the
\* stack is empty as it is read, and once a `type` line has been processed no
\* line changes the pool record's Version or Name.
C10_PoolLineStep ==
    /\ (Reading /\ IsFieldLine(CurLine) /\ FieldOf(CurLine) = version) =>
          run'.ps.pool.Version =
              IF run.ps.stack = <<>> THEN ValueOf(CurLine) ELSE run.ps.pool.Version
    /\ (Reading /\ IsFieldLine(CurLine) /\ FieldOf(CurLine) = name) =>
          run'.ps.pool.Name =
              IF run.ps.stack = <<>> THEN ValueOf(CurLine) ELSE run.ps.pool.Name
    /\ (Reading /\ TypeSeen) =>
          /\ run.ps.stack # <<>>
          /\ run'.ps.pool.Version = run.ps.pool.Version
          /\ run'.ps.pool.Name = run.ps.pool.Name
C10_PoolLevelFields == [][C10_PoolLineStep]_vars

\* a name line read after a `type` line went to the open node, not to the pool
C10_Witness ==
    /\ run.pc = "loop"
    /\ run.ps.stack # <<>>
    /\ name \in DOMAIN FrameNode(run.ps, Len(run.ps.stack)).Properties
    /\ run.ps.pool.Name = tank

\* a non-`type` field line / the line with its indentation replaced by k TABs
IsPropLine(l) == IsFieldLine(l) /\ FieldOf(l) # type
Reindent(l, k) == Tabs(k) \o TrimLeft(l, {TAB, " "})
\* what GetPool returns for the lines, the runner having succeeded
OutcomeOf(poolName, currentGUID, lines) ==
    ParseOutcome([IdleFrame EXCEPT !.poolName = poolName,
                                   !.currentGUID = currentGUID, !.lines = lines])

\* C6: a non-`type` field line read while the stack is non-empty is attached
\* to the node on top of the stack (its Properties gets the entry, nothing
\* else in the tree and nothing of the stack changes), whatever the line's
\* depth; and giving any property line of a text any other indentation
\* changes nothing of what GetPool returns for the text.
C6_PropLineStep ==
    (Reading /\ IsPropLine(CurLine) /\ run.ps.stack # <<>> /\ run'.pc = "loop") =>
        LET at == StackPath(run.ps.stack)
            n0 == NodeAt(Tree(run.ps), at)
            n1 == NodeAt(Tree(run'.ps), at)
        IN  /\ run'.ps.stack = run.ps.stack
            /\ Tree(run'.ps) = ReplaceAt(Tree(run.ps), at, n1)
            /\ n1.Properties = MapPut(n0.Properties, FieldOf(CurLine), ValueOf(CurLine))
            /\ n1.Children = n0.Children
            /\ n1.Type = n0.Type
C6_SameForAnyIndent ==
    (run.pc = "done") =>
        \A j \in 1..Len(run.lines), k \in 0..MaxLines :
            IsPropLine(run.lines[j]) =>
                OutcomeOf(run.poolName, run.currentGUID,
                          [run.lines EXCEPT ![j] = Reindent(@, k)]) = run.ret
C6_DepthIndependent == [][C6_PropLineStep]_vars /\ []C6_SameForAnyIndent

\* an id line at depth 2 was attached to a node opened at depth 2
C6_Witness ==
    /\ run.pc = "done"
    /\ run.ps.stack # <<>>
    /\ run.ps.stack[Len(run.ps.stack)].indent = 2
    /\ id \in DOMAIN FrameNode(run.ps, Len(run.ps.stack)).Properties
    /\ run.ret.err = NilErr

\* the fields parseProp scans into a typed integer
ScannedFields ==
    {id, guid, whole_disk, metaslab_array, metaslab_shift, ashift, asize,
     is_log, create_txg}
\* the loop reads a scanned field whose value fails conversion, a node being open
BadFieldRead ==
    /\ Reading /\ IsFieldLine(CurLine) /\ run.ps.stack # <<>>
    /\ FieldOf(CurLine) \in ScannedFields
    /\ ~Sscan(FieldOf(CurLine), ValueOf(CurLine)).ok

\* C8 as amended: a scanned field whose value fails conversion, read under an
\* open node, ends the call at that line with no record and an error that
\* names the field (it does not name the pool).
C8_BadFieldStep ==
    BadFieldRead =>
        /\ run'.pc = "done"
        /\ run'.i = run.i
        /\ run'.ret.pool = NilPool
        /\ run'.ret.err.kind = "failed to parse"
        /\ run'.ret.err.field = FieldOf(CurLine)
        /\ "pool" \notin DOMAIN run'.ret.err
RECURSIVE AllNodes(_)
AllNodes(children) ==
    UNION {{children[j]} \cup AllNodes(children[j].Children) : j \in 1..Len(children)}

\* C11: the Properties map of a node starts as {type: value of its type line}
\* and every field line attached to the node (a non-`type` field line read
\* while the node is on top of the stack), typed or not, converted or not,
\* sets its entry to the trimmed value of the line, so that a later line for
\* the field replaces the earlier one; no other line changes any map, and
\* the record returned holds the tree so built.  In a returned record every
\* entry is the trimmed value of a line of the text for that field, and the
\* type entry is the node's Type.
C11_PropsStep ==
    /\ (Reading /\ IsTypeLine(CurLine)) =>
          NodeAt(Tree(run'.ps), StackPath(run'.ps.stack)).Properties =
              [k \in {type} |-> ValueOf(CurLine)]
    /\ (Reading /\ IsPropLine(CurLine) /\ run.ps.stack # <<>>) =>
          LET at == StackPath(run.ps.stack)
              n0 == NodeAt(Tree(run.ps), at)
              n1 == NodeAt(Tree(run'.ps), at)
          IN  /\ n1.Properties = MapPut(n0.Properties, FieldOf(CurLine), ValueOf(CurLine))
              /\ ReplaceAt(Tree(run'.ps), at, n0) = Tree(run.ps)
    /\ (Reading /\ ~IsTypeLine(CurLine) /\ ~(IsPropLine(CurLine) /\ run.ps.stack # <<>>)) =>
          Tree(run'.ps) = Tree(run.ps)
    /\ (run.pc = "loop" /\ run'.pc = "done" /\ run'.ret.err = NilErr) =>
          run'.ret.pool.Children = Tree(run.ps)
C11_ReturnedMaps ==
    (run.pc = "done" /\ run.ret.err = NilErr) =>
        \A n \in AllNodes(run.ret.pool.Children) :
            /\ type \in DOMAIN n.Properties
            /\ n.Properties[type] = n.Type
            /\ \A k \in DOMAIN n.Properties :
                  \E j \in 1..Len(run.lines) :
                      /\ IsFieldLine(run.lines[j])
                      /\ FieldOf(run.lines[j]) = k
                      /\ ValueOf(run.lines[j]) = n.Properties[k]
C11_PropertiesComplete == [][C11_PropsStep]_vars /\ []C11_ReturnedMaps

\* a record was returned whose node holds its type, a typed field and the
\* value of the second of two path lines
C11_Witness ==
    /\ run.pc = "done"
    /\ run.ret.err = NilErr
    /\ Len(run.lines) = 4
    /\ FieldOf(run.lines[3]) = path /\ ValueOf(run.lines[3]) = <<"/">>
    /\ FieldOf(run.lines[4]) = path
    /\ DOMAIN run.ret.pool.Children[1].Properties = {type, id, path}
    /\ run.ret.pool.Children[1].Properties[path] = <<"/", ":", "b">>
    /\ run.ret.pool.Children[1].Properties[id] = <<"1", "7">>

\* a decimal numeral as the typed fields hold it
Num(digits) == [neg |-> FALSE, mag |-> digits]
\* the fields of the sample text's node, as strings
SampleProperties ==
    LET ls == SubSeq(ZDBOutput, 3, Len(ZDBOutput))
    IN  [k \in {FieldOf(ls[j]) : j \in 1..Len(ls)} |->
            ValueOf(ls[CHOOSE j \in 1..Len(ls) : FieldOf(ls[j]) = k])]
\* the record the sample text is to give for GetPool(tank, "9")
SampleRecord ==
    [Name |-> tank, GUID |-> <<"9">>, Version |-> <<"5", "0", "0", "0">>,
     Children |->
       <<[Type |-> <<"r", "o", "o", "t">>,
          ID |-> Num(<<"0">>),
          GUID |-> Num(<<"1","2","3","4","5","6","7","8","9","0",
                         "1","2","3","4","5","6","7","8","9","0">>),
          Path |-> <<"/","d","e","v","/","a","d","a","0","p","3">>,
          WholeDisk |-> Num(<<"0">>),
          MetaslabArray |-> Num(<<"7", "1">>),
          MetaslabShift |-> Num(<<"2", "4">>),
          Ashift |-> Num(<<"9">>),
          Asize |-> Num(<<"1","0","7","3","7","4","1","8","2","4","0">>),
          IsLog |-> Num(<<"0">>),
          CreateTXG |-> Num(<<"4">>),
          Properties |-> SampleProperties,
          Children |-> <<>>]>>]
\* the fields the sample text names, version and name included
SampleFields == {FieldOf(ZDBOutput[j]) : j \in 1..Len(ZDBOutput)}

\* C12 as amended: the sample text gives Version 5000, Name tank and one
\* top-level node of Type root with every typed field at the listed value, no
\* children, and a property map of exactly eleven string entries: type and
\* the ten property lines id..create_txg (version and name are not in it).
C12_ReferenceParse ==
    (run.pc = "done" /\ run.lines = ZDBOutput) =>
        /\ run.ret = [pool |-> SampleRecord, err |-> NilErr]
        /\ Cardinality(DOMAIN run.ret.pool.Children[1].Properties) = 11
        /\ DOMAIN run.ret.pool.Children[1].Properties = SampleFields \ {version, name}
        /\ \A k \in DOMAIN run.ret.pool.Children[1].Properties :
              \E j \in 3..13 : /\ FieldOf(ZDBOutput[j]) = k
                                /\ ValueOf(ZDBOutput[j]) = run.ret.pool.Children[1].Properties[k]

\* C12 as stated: the node's property map holds entries for twelve fields of
\* the sample text.
C12_TwelveEntries ==
    (run.pc = "done" /\ run.lines = ZDBOutput) =>
        /\ run.ret.err = NilErr
        /\ Len(run.ret.pool.Children) = 1
        /\ \E S \in SUBSET SampleFields :
              /\ Cardinality(S) = 12
              /\ S \subseteq DOMAIN run.ret.pool.Children[1].Properties

\* the sample text has been parsed to its end and the record returned
C12_Witness ==
    /\ run.pc = "done"
    /\ run.lines = ZDBOutput
    /\ run.i = 14
    /\ run.ret.err = NilErr
    /\ run.ret.pool.Children[1].Asize = Num(<<"1","0","7","3","7","4","1","8","2","4","0">>)

-----------------------------------------------------------------------------
(* Claims about the cache, under SpecSeq.                                  *)

\* the key of the call goroutine p is in, and whether the call has invoked
\* the runner
KeyOf(p) == CacheKey(frame[p].poolName, frame[p].currentGUID)
Invocations(p) == Len(CallHistory) - atCall[p].invocations
\* goroutine p takes the step that leaves the given place of GetPool
Leaves(p, at) == pc[p] = at /\ pc'[p] # at

\* C1: a call of a client with TTL > 0 that finds, under the read lock, an
\* entry for its key whose expiry is after the current time returns that
\* entry's record with a nil error and has invoked no command; when the
\* current time is the expiry or later the entry is not served and the call
\* goes on to the command.
C1_LookupStep ==
    \A p \in Procs :
        (Leaves(p, "lookup") /\ cacheTTL[frame[p].client] > 0) =>
            IF KeyOf(p) \in DOMAIN zdbCache /\ now < zdbCache[KeyOf(p)].expiry
            THEN /\ pc'[p] = "done"
                 /\ ret'[p] = [pool |-> zdbCache[KeyOf(p)].pool, err |-> NilErr]
                 /\ CallHistory' = CallHistory
                 /\ Invocations(p) = 0
            ELSE /\ pc'[p] = "zdbOutput"
                 /\ ret'[p] = ret[p]
C1_CacheHit == [][C1_LookupStep]_vars

\* a call was served the stored record one second before its expiry
C1_Witness ==
    /\ pc[1] = "done"
    /\ frame[1].cacheEnabled
    /\ Invocations(1) = 0
    /\ KeyOf(1) \in DOMAIN zdbCache
    /\ ret[1] = [pool |-> zdbCache[KeyOf(1)].pool, err |-> NilErr]
    /\ now + 1 = zdbCache[KeyOf(1)].expiry

\* C2: with TTL > 0 and calls made one after the other, a call invokes the
\* command exactly when its key has no entry (as on the first call) or the
\* entry's expiry is not after the time of the lookup, and then invokes it
\* once; its store replaces the key's entry by the record it built with
\* expiry = time of the store + TTL and leaves the other entries alone.
C2_CallStep ==
    \A p \in Procs :
        /\ Leaves(p, "lookup") =>
              ((pc'[p] = "zdbOutput") <=>
                   ~(KeyOf(p) \in DOMAIN zdbCache /\ now < zdbCache[KeyOf(p)].expiry))
        /\ Leaves(p, "zdbOutput") => Len(CallHistory') = Len(CallHistory) + 1
        /\ (pc[p] # "zdbOutput" /\ pc'[p] # pc[p]) => CallHistory' = CallHistory
        /\ Leaves(p, "store") =>
              /\ DOMAIN zdbCache' = DOMAIN zdbCache \cup {KeyOf(p)}
              /\ \A k \in DOMAIN zdbCache \ {KeyOf(p)} : zdbCache'[k] = zdbCache[k]
              /\ zdbCache'[KeyOf(p)] =
                    [pool |-> ret'[p].pool, guid |-> frame[p].currentGUID,
                     expiry |-> now + cacheTTL[frame[p].client]]
              /\ ret'[p].pool = Len(pools)
              /\ ret'[p].pool > atCall[p].pools
\* the first call for a key, one that began with no entry for it, has
\* invoked the command by the time it returns
C2_FirstCallInvokes ==
    \A p \in Procs :
        (pc[p] = "done" /\ KeyOf(p) \notin DOMAIN atCall[p].zdbCache) =>
            Invocations(p) = 1
C2_HitMissSequence == [][C2_CallStep]_vars /\ []C2_FirstCallInvokes

\* three calls on one key: a fetch, a hit, and after the expiry a second
\* fetch whose record replaced the entry
C2_Witness ==
    /\ calls = 3
    /\ pc[1] = "done"
    /\ Len(CallHistory) = 2
    /\ atCall[1].invocations = 1
    /\ DOMAIN zdbCache = {KeyOf(1)}
    /\ ret[1] = [pool |-> 2, err |-> NilErr]
    /\ zdbCache[KeyOf(1)].pool = 2
    /\ zdbCache[KeyOf(1)].expiry = now + cacheTTL[frame[1].client]
    /\ pools[1] # pools[2]

\* C3: calls made one after the other: a call that returns an error returns
\* no record and leaves the cache map as it was when the call began (no
\* entry created, the key's entry, expired or not, as it was), and the next
\* call, when it is for the same key through the same client, invokes the
\* command.
C3_FailureLeavesCache ==
    \A p \in Procs :
        /\ (pc[p] = "done" /\ ret[p].err # NilErr) =>
              /\ zdbCache = atCall[p].zdbCache
              /\ ret[p].pool = 0
        /\ (/\ pc[p] = "done"
            /\ atCall[p].lastFailed
            /\ atCall[p].lastKey = KeyOf(p)
            /\ atCall[p].lastClient = frame[p].client) =>
              Invocations(p) = 1

\* a call failed while an expired entry was held for its key; the entry is
\* as it was and the next call for the key has invoked the command
C3_Witness ==
    /\ pc[1] = "done"
    /\ atCall[1].lastFailed
    /\ atCall[1].lastKey = KeyOf(1)
    /\ atCall[1].lastClient = frame[1].client
    /\ frame[1].cacheEnabled
    /\ KeyOf(1) \in DOMAIN atCall[1].zdbCache
    /\ ret[1].err # NilErr
    /\ Invocations(1) = 1

\* C4 as amended: a call through a client whose cacheTTL is <= 0 (a client
\* NewClient made with ZDBCacheTTLSeconds = 0) invokes the command once and,
\* when it succeeds, returns the record it has just built; it is not served
\* from the cache and leaves the cache map alone, whatever was stored before.
C4_NoCachingAtOrBelowZero ==
    \A p \in Procs :
        (pc[p] = "done" /\ cacheTTL[frame[p].client] <= 0) =>
            /\ Invocations(p) = 1
            /\ zdbCache = atCall[p].zdbCache
            /\ ret[p].err = NilErr =>
                  /\ ret[p].pool = Len(pools)
                  /\ ret[p].pool > atCall[p].pools
                  /\ \A k \in DOMAIN zdbCache : zdbCache[k].pool # ret[p].pool

\* C4 as stated, the configured TTL being the option the client was made
\* with: a call through a client configured with a value <= 0 invokes the
\* command and is not served from the cache.
C4_ConfiguredAtOrBelowZero ==
    \A p \in Procs :
        (pc[p] = "done" /\ ZDBCacheTTLSeconds[frame[p].client] <= 0) =>
            /\ Invocations(p) = 1
            /\ zdbCache = atCall[p].zdbCache

\* a call through the client without caching fetched although the other
\* client's entry for its key was still live
C4_Witness ==
    /\ pc[1] = "done"
    /\ cacheTTL[frame[1].client] <= 0
    /\ KeyOf(1) \in DOMAIN zdbCache
    /\ now < zdbCache[KeyOf(1)].expiry
    /\ ret[1].err = NilErr
    /\ Invocations(1) = 1

\* C7: a call whose command printed nothing but whitespace returns the
\* no-output error and no record.
C7_EmptyInput ==
    \A p \in Procs :
        (/\ pc[p] = "done"
         /\ Invocations(p) = 1
         /\ frame[p].err = NilErr
         /\ TrimSpace(frame[p].stdout) = <<>>) =>
            ret[p] = [pool |-> 0, err |-> NoOutputErr(frame[p].poolName)]

\* the records a complete parse of one of the runner's texts gives
FullParses ==
    {PoolView(ps) :
        ps \in {x \in {ParseLines(NewParse(a, g), zdbOutput(t)) :
                          g \in {<<>>, b}, t \in Stdouts \ {t0 \in Stdouts : zdbOutput(t0) = <<>>}} :
                  x.err = NilErr}}

\* C9: a call that has returned gave either a record and a nil error, or no
\* record and an error; the record is one built from every line of a text
\* with no parseProp error.
C9_RecordOrError ==
    \A p \in Procs :
        pc[p] = "done" =>
            \/ /\ ret[p].pool = 0
               /\ ret[p].err # NilErr
            \/ /\ ret[p].err = NilErr
               /\ ret[p].pool \in 1..Len(pools)
               /\ pools[ret[p].pool] \in FullParses

\* one call has returned a record and a later one an error
C9_Witness ==
    /\ pc[1] = "done"
    /\ ret[1].pool = 0
    /\ ret[1].err.kind = "failed to parse"
    /\ Len(pools) > 0

-----------------------------------------------------------------------------
(* Claims about calls made at the same time, under SpecTwice and SpecConc. *)

C14_GuidVerbatim ==
    \A p \in Procs :
        (pc[p] = "done" /\ ret[p].err = NilErr) =>
            pools[ret[p].pool].GUID = frame[p].currentGUID

\* C19: a client made with a negative ZDBCacheTTLSeconds has a TTL of 5
\* minutes (300 seconds) and caches, one made with 0 has TTL 0 and does not
\* cache, and one made with a positive n has a TTL of n seconds and caches.
C19_NewClientTTL ==
    /\ \A c \in Clients :
          /\ ZDBCacheTTLSeconds[c] < 0 => cacheTTL[c] = 300
          /\ ZDBCacheTTLSeconds[c] = 0 => cacheTTL[c] = 0
          /\ ZDBCacheTTLSeconds[c] > 0 => cacheTTL[c] = ZDBCacheTTLSeconds[c]
    /\ \A p \in Procs :
          pc[p] # "idle" =>
              /\ frame[p].cacheEnabled <=> ZDBCacheTTLSeconds[frame[p].client] # 0
              /\ (pc[p] = "done" /\ ret[p].err = NilErr /\ frame[p].pool # 0
                  /\ ZDBCacheTTLSeconds[frame[p].client] # 0) =>
                     /\ KeyOf(p) \in DOMAIN zdbCache
                     /\ zdbCache[KeyOf(p)].expiry >=
                           cacheTTL[frame[p].client]
                     /\ zdbCache[KeyOf(p)].expiry <=
                           now + cacheTTL[frame[p].client]

\* a call through the client made with -1 was served from the cache an entry
\* that expires 5 minutes after it was stored
C19_Witness ==
    /\ pc[1] = "done"
    /\ ZDBCacheTTLSeconds[frame[1].client] = -1
    /\ ret[1].err = NilErr
    /\ Invocations(1) = 0
    /\ now > 0
    /\ zdbCache[KeyOf(1)].expiry \in 300..(300 + now)

\* what goroutine p holds of zdbCacheMutex
HoldsRLock(p) == p \in zdbCacheMutex.readers
HoldsLock(p) == zdbCacheMutex.writer = p

\* C15: a goroutine holds the read lock exactly while it is at the lookup
\* and the write lock exactly while it is at the store; while one holds the
\* write lock no other goroutine holds the read lock or the write lock.
C15_WriterExcludes ==
    /\ \A p \in Procs :
          /\ HoldsRLock(p) <=> pc[p] = "lookup"
          /\ HoldsLock(p) <=> pc[p] = "store"
    /\ \A p, q \in Procs :
          (p # q /\ HoldsLock(p)) => (~HoldsRLock(q) /\ ~HoldsLock(q))
    /\ zdbCacheMutex.writer # 0 => zdbCacheMutex.readers = {}

\* after a store under the write lock, both goroutines hold the read lock
\* at the same time
C15_Witness ==
    /\ zdbCache # <<>>
    /\ zdbCacheMutex.readers = {1, 2}
    /\ pc[1] = "lookup" /\ pc[2] = "lookup"

\* C20: a goroutine that is about to invoke the command, or has its output
\* and is about to parse it, holds neither lock; the read lock is held only
\* between RLock and the end of the lookup, the write lock only between Lock
\* and the end of the store.
C20_LockScope ==
    \A p \in Procs :
        /\ pc[p] \in {"zdbOutput", "parse"} => (~HoldsRLock(p) /\ ~HoldsLock(p))
        /\ HoldsRLock(p) => pc[p] = "lookup"
        /\ HoldsLock(p) => pc[p] = "store"

\* one goroutine is parsing while the other holds the write lock
C20_Witness ==
    /\ pc[1] = "parse"
    /\ pc[2] = "store"
    /\ zdbCacheMutex = [readers |-> {}, writer |-> 2]

\* C16: nothing couples two calls for the same key: a call that finds no
\* live entry goes on to invoke the command whatever the other call is doing,
\* its fetch invokes the command, its parse builds a record of its own, and
\* its store puts that record with expiry = time of the store + TTL under
\* the key whatever entry is there, so that of two calls that both missed
\* the one that stores last leaves the only entry of the key.
C16_Step ==
    \A p \in Procs :
        /\ (Leaves(p, "lookup") /\ ~IsLive(zdbCache, KeyOf(p), now)) =>
              pc'[p] = "zdbOutput"
        /\ Leaves(p, "zdbOutput") =>
              /\ Len(CallHistory') = Len(CallHistory) + 1
              /\ pc'[p] = "parse"
        /\ (Leaves(p, "parse") /\ pc'[p] = "Lock") =>
              /\ Len(pools') = Len(pools) + 1
              /\ frame'[p].pool = Len(pools')
        /\ Leaves(p, "store") =>
              /\ DOMAIN zdbCache' = DOMAIN zdbCache \cup {KeyOf(p)}
              /\ zdbCache'[KeyOf(p)] =
                    [pool |-> frame[p].pool, guid |-> frame[p].currentGUID,
                     expiry |-> now + cacheTTL[frame[p].client]]
              /\ ret'[p] = [pool |-> frame[p].pool, err |-> NilErr]
C16_NoCoalescing == [][C16_Step]_vars

\* two calls for the key a began with the cache empty, both invoked the
\* command and built a record, goroutine 2 stored at time 0 and goroutine 1
\* a second later: the one entry is goroutine 1's record, expiring at 1 + 2
C16_Witness ==
    /\ calls = 2
    /\ pc[1] = "done" /\ pc[2] = "done"
    /\ atCall[1].zdbCache = <<>> /\ atCall[2].zdbCache = <<>>
    /\ KeyOf(1) = KeyOf(2)
    /\ Len(CallHistory) = 2
    /\ Len(pools) = 2
    /\ ret[1] = [pool |-> 1, err |-> NilErr]
    /\ ret[2] = [pool |-> 2, err |-> NilErr]
    /\ DOMAIN zdbCache = {KeyOf(1)}
    /\ zdbCache[KeyOf(1)] = [pool |-> 1, guid |-> <<>>, expiry |-> 3]

\* C17: no step removes a key from the cache map, and a step that adds a
\* key or changes a key's entry is the store of a call for that key that has
\* fetched and parsed a record of its own and returns it with a nil error.
C17_Step ==
    /\ DOMAIN zdbCache \subseteq DOMAIN zdbCache'
    /\ \A k \in DOMAIN zdbCache' :
          (k \notin DOMAIN zdbCache \/ zdbCache'[k] # zdbCache[k]) =>
              \E p \in Procs :
                  /\ Leaves(p, "store")
                  /\ KeyOf(p) = k
                  /\ ret'[p] = [pool |-> zdbCache'[k].pool, err |-> NilErr]
                  /\ zdbCache'[k].pool > atCall[p].pools
C17_NoEviction == [][C17_Step]_vars

\* the entry of one key has expired and is still held, after a failed call
\* for it, while the other key has a live entry
C17_Witness ==
    /\ pc[1] = "done"
    /\ ret[1].err # NilErr
    /\ Cardinality(DOMAIN zdbCache) = 2
    /\ KeyOf(1) \in DOMAIN zdbCache
    /\ zdbCache[KeyOf(1)].expiry <= now
    /\ \E k \in DOMAIN zdbCache : now < zdbCache[k].expiry

\* C18: calls made one after the other: a call has invoked the command at
\* most once at any point, not at all until it has passed the lookup and
\* exactly once after its fetch; a call that returns without an invocation
\* returns the record the cache held for its key, and a call whose
\* invocation failed returns that invocation's error as it is, with no
\* record.
C18_AtMostOnce ==
    \A p \in Procs :
        /\ pc[p] # "idle" => Invocations(p) \in {0, 1}
        /\ pc[p] \in {"RLock", "lookup", "zdbOutput"} => Invocations(p) = 0
        /\ pc[p] \in {"parse", "Lock", "store"} => Invocations(p) = 1
        /\ (pc[p] = "done" /\ Invocations(p) = 0) =>
              /\ frame[p].cacheEnabled
              /\ KeyOf(p) \in DOMAIN atCall[p].zdbCache
              /\ ret[p] = [pool |-> atCall[p].zdbCache[KeyOf(p)].pool, err |-> NilErr]
        /\ (pc[p] = "done" /\ frame[p].err # NilErr) =>
              /\ Invocations(p) = 1
              /\ ret[p] = [pool |-> 0, err |-> frame[p].err]
              /\ ret[p].err = CmdErr(CallHistory[Len(CallHistory)].Args)

\* a call of a caching client whose one invocation failed has returned the
\* runner's error
C18_Witness ==
    /\ pc[1] = "done"
    /\ frame[1].cacheEnabled
    /\ frame[1].err # NilErr
    /\ ret[1].err = frame[1].err
    /\ Len(CallHistory) = atCall[1].invocations + 1
    /\ atCall[1].invocations > 0

-----------------------------------------------------------------------------
(* Claims about the clients, the records and the keys.                     *)

\* C21: each client has its own cache: a call made through one client, when
\* the only call before it was made through the other client, is never
\* served a record that existed before the call began (it returns an error
\* or a record it fetched and parsed itself), and it leaves the entry the
\* other client stored as it was.
C21_ClientIsolation ==
    (/\ pc[1] = "done"
     /\ calls = 2
     /\ atCall[1].lastClient \in Clients \ {frame[1].client}) =>
        /\ ret[1].err = NilErr => ret[1].pool > atCall[1].pools
        /\ \A k \in DOMAIN atCall[1].zdbCache : zdbCache[k] = atCall[1].zdbCache[k]

\* the caller that holds the *ZDBPool its call returned assigns to a field of
\* it: pool.Name = "x" (the fields of ZDBPool are exported and the caller
\* holds a pointer)
Renamed == <<"x">>
WriteRecord(p) ==
    /\ pc[p] = "done"
    /\ ret[p].err = NilErr
    /\ pools[ret[p].pool].Name # Renamed
    /\ pools' = [pools EXCEPT ![ret[p].pool].Name = Renamed]
    /\ UNCHANGED <<now, ticks, ZDBCacheTTLSeconds, cacheTTL, lastStore, zdbCache, zdbCacheMutex,
                   CallHistory, pc, frame, ret, calls, atCall, run>>

\* SpecOwn: one caller making its calls for the pool a one after the other
\* through the client with a TTL of 2 seconds, and writing to the records it
\* is returned
OwnInit == CacheInit({[c \in Clients |-> IF c = 1 THEN 0 ELSE 2]}) /\ ParseIdle
OwnNext ==
    \/ \E g \in {<<>>, b} : GetPoolBegin(1, 2, a, g)
    \/ RLock(1)
    \/ Lookup(1)
    \/ \E r \in ConcResults : Fetch(1, r)
    \/ Parse(1)
    \/ Lock(1)
    \/ Store(1)
    \/ Finish(1)
    \/ WriteRecord(1)
    \/ Tick(1)
SpecOwn == OwnInit /\ [][OwnNext]_vars

\* C22: the record handed to a caller is its own: when a call returns a
\* record, that record is as a parse made it (its Name is the pool name of
\* the call, no line of the texts being a `name` line), whatever the callers
\* of earlier calls have written to the records they were returned.
C22_ExclusiveRecord ==
    [][(pc[1] # "done" /\ pc'[1] = "done" /\ ret'[1].err = NilErr) =>
          pools'[ret'[1].pool].Name = frame'[1].poolName]_vars

-----------------------------------------------------------------------------
(* Claims about the tree and the stack of the parser, under SpecParse.     *)

\* the addresses (array, index) of the elements i.. of the slice s and of
\* their descendants, parents before children and siblings in order; a path
\* longer than the number of arrays (a cycle) is cut with the address (0, 0)
RECURSIVE Walk(_, _, _, _)
Walk(arrays, s, i, fuel) ==
    IF i > s.len THEN <<>>
    ELSE IF fuel = 0 THEN <<[arr |-> 0, idx |-> 0]>>
    ELSE <<[arr |-> s.arr, idx |-> i]>>
         \o Walk(arrays, arrays[s.arr][i].Children, 1, fuel - 1)
         \o Walk(arrays, s, i + 1, fuel)
PreOrder(ps) == Walk(ps.arrays, ps.pool.Children, 1, Len(ps.arrays) + 1)

\* the lines the loop has processed, and the `type` lines among them
Processed == SubSeq(run.lines, 1, run.i - 1)
TypeLines == SelectSeq(Processed, IsTypeLine)

\* C23: while the parse has not failed, the nodes reachable from the pool
\* record are, walked parents first and siblings in order, one per `type`
\* line processed so far and in the order of those lines, each with the
\* Type its line gave; no node is reached twice (one parent each) and no
\* path comes back to a node (no cycle); the record returned holds that tree.
C23_WellFormed ==
    (run.pc \in {"loop", "done"} /\ run.ps.err = NilErr /\ run.ret.err = NilErr) =>
        LET walk == PreOrder(run.ps)
        IN  /\ Len(walk) = Len(TypeLines)
            /\ \A j \in 1..Len(walk) :
                  /\ walk[j].arr # 0
                  /\ run.ps.arrays[walk[j].arr][walk[j].idx].Type = ValueOf(TypeLines[j])
            /\ \A j, k \in 1..Len(walk) : j # k => walk[j] # walk[k]
            /\ run.pc = "done" => run.ret.pool.Children = Tree(run.ps)

\* a record was returned for four `type` lines: two top-level nodes, the
\* first with a child that has a child
C23_Witness ==
    /\ run.pc = "done"
    /\ run.ret.err = NilErr
    /\ Len(TypeLines) = 4
    /\ Len(run.ret.pool.Children) = 2
    /\ Len(run.ret.pool.Children[1].Children) = 1
    /\ Len(run.ret.pool.Children[1].Children[1].Children) = 1

\* the line is skipped by the loop: blank, or without a colon, or a field
\* other than version, name and type read while the stack is empty
IsSkipped(ps, l) ==
    \/ TrimSpace(l) = <<>>
    \/ ~IsFieldLine(l)
    \/ ps.stack = <<>> /\ FieldOf(l) \notin {version, name, type}

\* C24: an iteration that reads a blank line, a line without a colon, or a
\* line other than version/name/type while the stack is empty leaves the
\* pool record, the backing arrays of the tree, the stack and the error as
\* they were, and the loop goes on to the next line.
C24_SkipStep ==
    (Reading /\ IsSkipped(run.ps, CurLine)) =>
        /\ run'.ps = run.ps
        /\ run'.pc = "loop"
        /\ run'.i = run.i + 1
        /\ run'.ret = run.ret
C24_SkippedLinesNoEffect == [][C24_SkipStep]_vars

\* a field line was read with the stack empty, then a type line, a blank
\* line and a line without a colon: the record returned holds one node with
\* the type entry alone
C24_Witness ==
    /\ run.pc = "done"
    /\ run.ret.err = NilErr
    /\ Len(run.lines) = 4
    /\ IsFieldLine(run.lines[1]) /\ FieldOf(run.lines[1]) = id
    /\ IsTypeLine(run.lines[2])
    /\ TrimSpace(run.lines[3]) = <<>>
    /\ TrimSpace(run.lines[4]) # <<>> /\ ~IsFieldLine(run.lines[4])
    /\ run.ret.pool = [Name |-> tank, GUID |-> <<"9">>, Version |-> <<>>,
                       Children |-> <<[NewChild(ValueOf(run.lines[2])) EXCEPT
                                          !.Children = <<>>]>>]

-----------------------------------------------------------------------------
(* Claims about the cache keys.                                            *)

\* SpecGuids: one caller making its calls one after the other through the
\* client with a TTL of 2 seconds, for the pool a without a GUID and with
\* the GUIDs b and bb; the runner fails or prints one of two texts
Guids == {<<>>, b, b \o b}
GuidsInit == CacheInit({[c \in Clients |-> IF c = 1 THEN 0 ELSE 2]}) /\ ParseIdle
GuidsNext ==
    \/ \E g \in Guids : GetPoolBegin(1, 2, a, g)
    \/ RLock(1)
    \/ Lookup(1)
    \/ \E r \in ConcResults : Fetch(1, r)
    \/ Parse(1)
    \/ Lock(1)
    \/ Store(1)
    \/ Finish(1)
    \/ Tick(1)
SpecGuids == GuidsInit /\ [][GuidsNext]_vars

\* C25: the lookup and the store of GetPool(name, guid) use the entry under
\* name when guid is empty and under name + "|" + guid otherwise: a hit
\* returns the record of that entry and a store writes that entry and no
\* other.  Calls for one name with different guids, or with and without a
\* guid, therefore use different entries: a call is only ever returned a
\* record made by a call with its own guid.
C25_KeyStep ==
    LET key == IF frame[1].currentGUID = <<>> THEN frame[1].poolName
               ELSE frame[1].poolName \o <<"|">> \o frame[1].currentGUID
    IN  /\ (pc[1] = "lookup" /\ pc'[1] = "done") =>
              /\ key \in DOMAIN zdbCache
              /\ ret'[1] = [pool |-> zdbCache[key].pool, err |-> NilErr]
        /\ (pc[1] = "lookup" /\ pc'[1] = "zdbOutput") =>
              (key \in DOMAIN zdbCache => ~Before(now, zdbCache[key].expiry))
        /\ (pc[1] = "store" /\ pc'[1] = "done") =>
              /\ key \in DOMAIN zdbCache'
              /\ zdbCache'[key].pool = frame[1].pool
              /\ \A k \in DOMAIN zdbCache' \ {key} :
                    k \in DOMAIN zdbCache /\ zdbCache'[k] = zdbCache[k]
C25_OwnGuid ==
    (pc[1] = "done" /\ ret[1].err = NilErr) =>
        /\ pools[ret[1].pool].Name = frame[1].poolName
        /\ pools[ret[1].pool].GUID = frame[1].currentGUID
C25_KeyPerGuid == [][C25_KeyStep]_vars /\ []C25_OwnGuid

\* records were stored for the GUIDs b and bb, and a third call, for b, was
\* served the first of them while both entries were live
C25_Witness ==
    /\ pc[1] = "done"
    /\ calls = 3
    /\ Invocations(1) = 0
    /\ frame[1].currentGUID = b
    /\ DOMAIN zdbCache = {a \o <<"|">> \o b, a \o <<"|">> \o b \o b}
    /\ \A k \in DOMAIN zdbCache : Before(now, zdbCache[k].expiry)
    /\ ret[1] = [pool |-> 1, err |-> NilErr]
    /\ zdbCache[a \o <<"|">> \o b \o b].pool = 2
    /\ pools[1].GUID = b /\ pools[2].GUID = b \o b

\* C26: a call served from the cache is served an entry that was stored for
\* its own (name, guid) pair: the guid recorded in the entry is the guid of
\* the call and the record is the one parsed for the call's pool name.
C26_KeysInjective ==
    (pc[1] = "done" /\ ret[1].err = NilErr /\ Invocations(1) = 0) =>
        /\ zdbCache[KeyOf(1)].guid = frame[1].currentGUID
        /\ pools[ret[1].pool].Name = frame[1].poolName

\* the slice a frame's node must be an element of: the Children of the node
\* of the frame below, and pool.Children for the bottom frame
SliceBelow(ps, k) ==
    IF k = 1 THEN ps.pool.Children
    ELSE ps.arrays[ps.stack[k - 1].child.arr][ps.stack[k - 1].child.idx].Children

\* C27: at every iteration of the loop and at its end, the depths recorded
\* in the stack frames increase strictly from the bottom to the top, the
\* node of each frame is an element of the Children of the node of the frame
\* below it (of pool.Children for the bottom frame), and the stack is
\* non-empty once a `type` line has been processed.
C27_StackInvariant ==
    (run.pc \in {"loop", "done"}) =>
        LET stack == run.ps.stack
        IN  /\ \A k \in 2..Len(stack) : stack[k - 1].indent < stack[k].indent
            /\ \A k \in 1..Len(stack) :
                  /\ stack[k].child.arr = SliceBelow(run.ps, k).arr
                  /\ stack[k].child.idx \in 1..SliceBelow(run.ps, k).len
            /\ Len(TypeLines) > 0 => Len(stack) > 0
            /\ Len(TypeLines) = 0 => Len(stack) = 0

\* type lines at the depths 0, 1, 2 and 1 have been processed: the last one
\* closed two frames and opened the second child of the first node
C27_Witness ==
    /\ run.pc = "loop"
    /\ run.i = 5
    /\ Len(TypeLines) = 4
    /\ [k \in 1..4 |-> DepthOf(run.lines[k])] = <<0, 1, 2, 1>>
    /\ [k \in 1..Len(run.ps.stack) |-> run.ps.stack[k].indent] = <<0, 1>>
    /\ StackPath(run.ps.stack) = <<1, 2>>
    /\ Len(Tree(run.ps)[1].Children) = 2

\* the addresses of the nodes reachable from the pool record
Live(ps) == {PreOrder(ps)[j] : j \in 1..Len(PreOrder(ps))}
Top(ps) == ps.stack[Len(ps.stack)].child

\* C28: in every state of the loop each stack frame holds the address of a
\* node that is reachable from the pool record, also after an append has
\* moved a Children sequence to a new backing array.  A property line read
\* with the stack non-empty writes its entry into a reachable node, a `type`
\* line adds a reachable node to the Children of the reachable node that is
\* on top after the pop, and the record returned has an entry for every
\* property line attached, with the value of that line or of a later line
\* for the same field.
C28_FramesLive ==
    (run.pc \in {"loop", "done"}) =>
        \A k \in 1..Len(run.ps.stack) : run.ps.stack[k].child \in Live(run.ps)
C28_Step ==
    /\ (Reading /\ IsPropLine(CurLine) /\ run.ps.stack # <<>> /\ run'.ps.err = NilErr) =>
          /\ Top(run'.ps) = Top(run.ps)
          /\ Top(run'.ps) \in Live(run'.ps)
          /\ run'.ps.arrays[Top(run.ps).arr][Top(run.ps).idx].Properties[FieldOf(CurLine)]
                = ValueOf(CurLine)
    /\ (Reading /\ IsTypeLine(CurLine)) =>
          /\ Top(run'.ps) \in Live(run'.ps) \ Live(run.ps)
          /\ Len(run'.ps.stack) > 1 =>
                LET parent == run'.ps.stack[Len(run'.ps.stack) - 1].child
                IN  /\ parent \in Live(run.ps) \cap Live(run'.ps)
                    /\ run'.ps.arrays[parent.arr][parent.idx].Children.len =
                          run.ps.arrays[parent.arr][parent.idx].Children.len + 1
                    /\ Top(run'.ps).arr = run'.ps.arrays[parent.arr][parent.idx].Children.arr
                    /\ Top(run'.ps).idx = run'.ps.arrays[parent.arr][parent.idx].Children.len
C28_AllPresent ==
    (run.pc = "done" /\ run.ret.err = NilErr) =>
        /\ Cardinality(Live(run.ps)) = Len(TypeLines)
        /\ \A j \in 1..Len(run.lines) :
              (IsPropLine(run.lines[j]) /\ \E h \in 1..(j - 1) : IsTypeLine(run.lines[h])) =>
                  \E n \in AllNodes(run.ret.pool.Children), h \in j..Len(run.lines) :
                      /\ IsPropLine(run.lines[h])
                      /\ FieldOf(run.lines[h]) = FieldOf(run.lines[j])
                      /\ FieldOf(run.lines[j]) \in DOMAIN n.Properties
                      /\ n.Properties[FieldOf(run.lines[j])] = ValueOf(run.lines[h])
C28_NoStaleFrame == []C28_FramesLive /\ [][C28_Step]_vars /\ []C28_AllPresent

\* a second top-level node was appended, which moved pool.Children to a new
\* backing array, after the first node had received a child and a property;
\* the record returned holds the child, the property and the second node
C28_Witness ==
    /\ run.pc = "done"
    /\ run.ret.err = NilErr
    /\ Len(run.lines) = 4
    /\ Len(run.ps.arrays) >= 3
    /\ run.ps.pool.Children.arr = Len(run.ps.arrays)
    /\ IsTypeLine(run.lines[1]) /\ IsTypeLine(run.lines[2])
    /\ IsPropLine(run.lines[3]) /\ IsTypeLine(run.lines[4])
    /\ Len(run.ret.pool.Children) = 2
    /\ Len(run.ret.pool.Children[1].Children) = 1
    /\ FieldOf(run.lines[3]) \in DOMAIN run.ret.pool.Children[1].Children[1].Properties

-----------------------------------------------------------------------------
(* Claims about the locks and the progress of calls, under SpecLive.       *)

\* SpecLive: two goroutines calling GetPool(a, "") at the same time through
\* the client with a TTL of 2 seconds, the clock standing still; the runner
\* fails, prints nothing, prints a text with a field that does not convert,
\* or prints a valid text.  A goroutine inside GetPool keeps running: its
\* steps that wait for nothing are taken once they stay possible (the
\* command returns), it does not stay in the loop over the lines for ever
\* (the loop is finite: Parse is defined for every text), and RLock and Lock
\* are acquired when the mutex is free again and again (sync.RWMutex starves
\* no waiter).
LiveResults ==
    {[failed |-> TRUE, stdout |-> <<>>]}
    \cup {[failed |-> FALSE, stdout |-> t] : t \in {<<>>, BadFieldText, GoodText1}}
Running(p) ==
    Lookup(p) \/ (\E r \in LiveResults : Fetch(p, r)) \/ Parse(p) \/ Store(p)
LiveInit == CacheInit({[c \in Clients |-> IF c = 1 THEN 0 ELSE 2]}) /\ ParseIdle
LiveNext ==
    \/ \E p \in Procs : GetPoolBegin(p, 2, a, <<>>)
    \/ \E p \in Procs : RLock(p)
    \/ \E p \in Procs : Running(p)
    \/ \E p \in Procs : Lock(p)
    \/ \E p \in Procs : Finish(p)
SpecLive ==
    /\ LiveInit
    /\ [][LiveNext]_vars
    /\ \A p \in Procs :
          /\ WF_vars(Lookup(p))
          /\ WF_vars(\E r \in LiveResults : Fetch(p, r))
          /\ []<>(pc[p] # "parse")
          /\ WF_vars(Store(p))
          /\ SF_vars(RLock(p))
          /\ SF_vars(Lock(p))

InGetPool(p) == pc[p] \notin {"idle", "done"}

\* C29: a goroutine that is not inside GetPool (it has returned, or has not
\* called), or that is fetching or parsing, holds neither lock, whatever
\* the outcome of its call, and the
\* mutex is free when no goroutine is inside GetPool; a goroutine at its
\* lookup, fetch or store can take its step, and one that waits at RLock or
\* Lock and cannot acquire waits for a goroutine that is at its lookup or
\* its store and can take that step (no deadlock); and every call that has
\* begun returns.
C29_Released ==
    /\ \A p \in Procs :
          (~InGetPool(p) \/ pc[p] \in {"zdbOutput", "parse"}) =>
              (~HoldsRLock(p) /\ ~HoldsLock(p))
    /\ (\A p \in Procs : ~InGetPool(p)) =>
          zdbCacheMutex = [readers |-> {}, writer |-> 0]
C29_NoDeadlock ==
    \A p \in Procs :
        /\ pc[p] = "lookup" => ENABLED Lookup(p)
        /\ pc[p] = "zdbOutput" => ENABLED (\E r \in LiveResults : Fetch(p, r))
        /\ pc[p] = "store" => ENABLED Store(p)
        /\ pc[p] = "RLock" =>
              \/ ENABLED RLock(p)
              \/ \E q \in Procs \ {p} : pc[q] = "store" /\ ENABLED Store(q)
        /\ pc[p] = "Lock" =>
              \/ ENABLED Lock(p)
              \/ \E q \in Procs \ {p} :
                    \/ pc[q] = "store" /\ ENABLED Store(q)
                    \/ pc[q] = "lookup" /\ ENABLED Lookup(q)
C29_LockBalance ==
    /\ []C29_Released
    /\ []C29_NoDeadlock
    /\ \A p \in Procs : InGetPool(p) ~> (pc[p] = "done")

\* three calls have returned, the last two at the same time: one with an
\* error and one with a record it stored, and the mutex is free
C29_Witness ==
    /\ calls = 3
    /\ pc[1] = "done" /\ pc[2] = "done"
    /\ ret[1].err # NilErr
    /\ ret[2].err = NilErr
    /\ zdbCache[a].pool = ret[2].pool
    /\ zdbCacheMutex = [readers |-> {}, writer |-> 0]

-----------------------------------------------------------------------------
(* Claims about the age of the records served, under SpecSeq.              *)

\* C30: when a call is served from the cache, a call for the same key has
\* stored under that key a record it had fetched and parsed itself, the
\* record served is the one of the last such store, and the time since that
\* store is less than the TTL of the client that stored (which need not be
\* the TTL of the client that is served).
C30_HitStep ==
    \A p \in Procs :
        (pc[p] = "lookup" /\ pc'[p] = "done") =>
            /\ KeyOf(p) \in DOMAIN lastStore
            /\ lastStore[KeyOf(p)].key = KeyOf(p)
            /\ lastStore[KeyOf(p)].fresh
            /\ ret'[p] = [pool |-> lastStore[KeyOf(p)].pool, err |-> NilErr]
            /\ lastStore[KeyOf(p)].time <= now
            /\ now - lastStore[KeyOf(p)].time < lastStore[KeyOf(p)].ttl
C30_BoundedStaleness == [][C30_HitStep]_vars

\* a call through the client with a TTL of 2 seconds was served a record
\* that the client with a TTL of 5 minutes stored 3 seconds before
C30_Witness ==
    /\ pc[1] = "done"
    /\ Invocations(1) = 0
    /\ frame[1].client = 2
    /\ cacheTTL[2] = 2
    /\ KeyOf(1) \in DOMAIN lastStore
    /\ ret[1] = [pool |-> lastStore[KeyOf(1)].pool, err |-> NilErr]
    /\ now - lastStore[KeyOf(1)].time = 3
    /\ lastStore[KeyOf(1)].ttl = 300

=============================================================================
